---------------------------- MODULE Spec2Model ----------------------------
(***************************************************************************)
(* Tower defense simulation engine of src/main.c (the second, most         *)
(* feature-complete revision, lines 922-1925).                             *)
(*                                                                         *)
(* Units.  The C code computes in float; the model computes the same       *)
(* quantities exactly, as integers in fixed units:                         *)
(*   time            1/Second of a second (Second = 7920, the least        *)
(*                   denominator of every interval the code forms)         *)
(*   length          pixels; an enemy position is a pair of numerators     *)
(*                   over a common denominator d                           *)
(*   health, damage, speedMultiplier   tenths                              *)
(*   speed           half cells per second                                 *)
(*   fireRate        tenths per second                                     *)
(* Float rounding is not modelled.                                         *)
(***************************************************************************)
EXTENDS Integers, Sequences, FiniteSets, TLC

VARIABLES
    mapFile,             \* map.txt as LoadMap reads it: text, characters read, rows read
    walls,               \* bool walls[GRID_SIZE][GRID_SIZE]
    path,                \* Vector2 path[GRID_SIZE * GRID_SIZE]
    pathLength,          \* int pathLength
    startPos, endPos,    \* main's locals handed to FindPathBFS
    routeFound,          \* result of FindPathBFS: "none" before the call, "true", "false"
    towers,              \* Tower towers[GRID_SIZE][GRID_SIZE]
    activeWave,          \* EnemyWave activeWave
    projectiles,         \* lifeTimer of projectiles[0..projectileCount-1]
    gameState, playerHealth, playerMoney, currentWaveNumber,
    gameSpeed, g_isPaused,
    g_selectedTowerX, g_selectedTowerY, g_selectedBuildType,
    pc,                  \* position in main's frame loop
    input,               \* what the keyboard and mouse report in this frame
    frameDt,             \* GetFrameTime() of this frame
    hist                 \* history: what the run has done (not program state)

vars == <<mapFile, walls, path, pathLength, startPos, endPos, routeFound, towers,
          activeWave, projectiles, gameState, playerHealth, playerMoney,
          currentWaveNumber, gameSpeed, g_isPaused, g_selectedTowerX,
          g_selectedTowerY, g_selectedBuildType, pc, input, frameDt, hist>>

routeVars == <<mapFile, walls, path, pathLength, startPos, endPos, routeFound>>

gameVars == <<towers, activeWave, projectiles, gameState, playerHealth,
              playerMoney, currentWaveNumber, gameSpeed, g_isPaused,
              g_selectedTowerX, g_selectedTowerY, g_selectedBuildType, hist>>

---------------------------------------------------------------------------
(* Program constants *)

SCREEN_HEIGHT == 800
GAME_AREA_WIDTH == 800
GRID_SIZE == 10
cellWidth == GAME_AREA_WIDTH \div GRID_SIZE
cellHeight == SCREEN_HEIGHT \div GRID_SIZE
MAX_WAVES == 30
PLAYER_START_HEALTH == 20
PLAYER_START_MONEY == 150
MAX_TOWER_LEVEL == 4
MAX_ENEMIES_PER_WAVE == 150
MAX_PROJECTILES == 200

Second == 16 * 9 * 5 * 11

SPAWN_INTERVAL == (35 * Second) \div 100

Cells == (0 .. GRID_SIZE - 1) \X (0 .. GRID_SIZE - 1)

---------------------------------------------------------------------------
(* Grid & Router: FindPathBFS *)

dx == <<0, 0, -1, 1>>
dy == <<-1, 1, 0, 0>>

NoParent == <<-1, -1>>

\* One pass of the for loop over the four neighbours of current (i = 1..4):
\* s is [queue, visited, parent].
RECURSIVE BFSNeighbours(_, _, _, _)
BFSNeighbours(w, current, i, s) ==
    IF i > 4 THEN s
    ELSE LET nextX == current[1] + dx[i]
             nextY == current[2] + dy[i]
             next  == <<nextX, nextY>>
             inGrid == /\ nextX >= 0 /\ nextX < GRID_SIZE
                       /\ nextY >= 0 /\ nextY < GRID_SIZE
         IN  IF inGrid /\ next \notin s.visited /\ ~w[next]
             THEN BFSNeighbours(w, current, i + 1,
                      [queue   |-> Append(s.queue, next),
                       visited |-> s.visited \cup {next},
                       parent  |-> (next :> current) @@ s.parent])
             ELSE BFSNeighbours(w, current, i + 1, s)

\* The while (head < tail) loop; head counts the cells taken off the queue.
RECURSIVE BFSLoop(_, _, _, _)
BFSLoop(w, end, head, s) ==
    IF head >= Len(s.queue) THEN [pathFound |-> FALSE, parent |-> s.parent]
    ELSE LET current == s.queue[head + 1]
         IN  IF current = end
             THEN [pathFound |-> TRUE, parent |-> s.parent]
             ELSE BFSLoop(w, end, head + 1, BFSNeighbours(w, current, 1, s))

\* while (current.x != -1): the cells from end back to start.
RECURSIVE WalkParents(_, _)
WalkParents(parent, current) ==
    IF current[1] = -1 THEN <<>>
    ELSE <<current>> \o WalkParents(parent, parent[current])

\* a variant of the reversal loop that leaves the cells in walk order
ReverseForgotten(s) == s

\* for (i = 0; i < pathLength / 2; i++) swap path[i], path[pathLength - 1 - i]
Reverse(s) == [i \in 1 .. Len(s) |-> s[Len(s) + 1 - i]]

\* a variant of FindPathBFS that clears pathLength before it searches
FindPathBFSClearsLength(w, start, end, oldPath, oldLength) ==
    IF w[start] \/ w[end]
    THEN [found |-> FALSE, path |-> oldPath, pathLength |-> 0]
    ELSE LET r == BFSLoop(w, end, 0,
                     [queue   |-> <<start>>,
                      visited |-> {start},
                      parent  |-> (start :> NoParent)])
         IN  IF ~r.pathFound
             THEN [found |-> FALSE, path |-> oldPath, pathLength |-> 0]
             ELSE LET rev == Reverse(WalkParents(r.parent, end))
                  IN  [found |-> TRUE,
                       path |-> [i \in DOMAIN oldPath |->
                                    IF i < Len(rev) THEN rev[i + 1] ELSE oldPath[i]],
                       pathLength |-> Len(rev)]

\* FindPathBFS(start, end) on the globals walls, path, pathLength:
\* the returned bool and the globals afterwards.  path is 0-indexed.
FindPathBFS(w, start, end, oldPath, oldLength) ==
    IF w[start] \/ w[end]
    THEN [found |-> FALSE, path |-> oldPath, pathLength |-> oldLength]
    ELSE LET r == BFSLoop(w, end, 0,
                     [queue   |-> <<start>>,
                      visited |-> {start},
                      parent  |-> (start :> NoParent)])
         IN  IF ~r.pathFound
             THEN [found |-> FALSE, path |-> oldPath, pathLength |-> oldLength]
             ELSE LET rev == Reverse(WalkParents(r.parent, end))
                  IN  [found |-> TRUE,
                       path |-> [i \in DOMAIN oldPath |->
                                    IF i < Len(rev) THEN rev[i + 1] ELSE oldPath[i]],
                       pathLength |-> Len(rev)]

ZeroPath == [i \in 0 .. GRID_SIZE * GRID_SIZE - 1 |-> <<0, 0>>]

\* the map file once LoadMap is through with it
ClosedFile == [exists |-> TRUE, text |-> <<>>, pos |-> 0, y |-> GRID_SIZE]

---------------------------------------------------------------------------
(* Map Loader: LoadMap *)

\* fgets(line, sizeof(line), file) with char line[GRID_SIZE + 3]: the
\* characters of text from index i on, up to and with the first newline, at
\* most room of them; the empty line stands for NULL at the end of the file
RECURSIVE FgetsFrom(_, _, _)
FgetsFrom(text, i, room) ==
    IF i > Len(text) \/ room = 0 THEN <<>>
    ELSE IF text[i] = "\n" THEN <<text[i]>>
    ELSE <<text[i]>> \o FgetsFrom(text, i + 1, room - 1)

Fgets(file) == FgetsFrom(file.text, file.pos + 1, GRID_SIZE + 2)

\* the loop over x of LoadMap for row y, from cell x on; ok is FALSE where
\* the loop returns false
RECURSIVE LoadRowFrom(_, _, _, _)
LoadRowFrom(st, line, x, y) ==
    IF x >= GRID_SIZE THEN st
    ELSE LET c == line[x + 1]
         IN  IF c = "1"
             THEN LoadRowFrom([st EXCEPT !.walls[<<x, y>>] = TRUE], line, x + 1, y)
             ELSE LET open == [st EXCEPT !.walls[<<x, y>>] = FALSE]
                  IN  IF c = "s"
                      THEN IF open.startPos[1] # -1 THEN [open EXCEPT !.ok = FALSE]
                           ELSE LoadRowFrom([open EXCEPT !.startPos = <<x, y>>],
                                            line, x + 1, y)
                      ELSE IF c = "f"
                      THEN IF open.endPos[1] # -1 THEN [open EXCEPT !.ok = FALSE]
                           ELSE LoadRowFrom([open EXCEPT !.endPos = <<x, y>>],
                                            line, x + 1, y)
                      ELSE LoadRowFrom(open, line, x + 1, y)

\* the body of the loop over y of LoadMap for the line fgets has read
LoadRow(st, line, y) ==
    IF line = <<>> THEN [st EXCEPT !.ok = FALSE]
    ELSE IF Len(line) < GRID_SIZE THEN [st EXCEPT !.ok = FALSE]
    ELSE LoadRowFrom(st, line, 0, y)


---------------------------------------------------------------------------
(* Data tables *)

GAME_STATE_WAVE_TRANSITION == "WAVE_TRANSITION"
GAME_STATE_PLAYING == "PLAYING"
GAME_STATE_GAME_OVER == "GAME_OVER"
GAME_STATE_VICTORY == "VICTORY"

TOWER_GUN == 0
TOWER_SLOW == 1
TOWER_SPLASH == 2
TOWER_TYPE_COUNT == 3

ENEMY_NORMAL == 0
ENEMY_SCOUT == 1
ENEMY_TANK == 2
ENEMY_BOSS == 3
ENEMY_TYPE_COUNT == 4

\* (TowerLevelStats){cost, range, damage, fireRate, splashRadius}: range and
\* splashRadius given in tenths of cellWidth, damage and fireRate in tenths.
TowerLevelStats(cost, range10, damage10, fireRate10, splash10) ==
    [cost |-> cost, range |-> (range10 * cellWidth) \div 10, damage |-> damage10,
     fireRate |-> fireRate10, splashRadius |-> (splash10 * cellWidth) \div 10]

\* InitializeTowerStats: g_towerStats[type][level]
g_towerStats ==
    [t \in 0 .. TOWER_TYPE_COUNT - 1 |->
       CASE t = TOWER_GUN ->
              [l \in 0 .. MAX_TOWER_LEVEL - 1 |->
                 CASE l = 0 -> TowerLevelStats(50, 25, 400, 20, 0)
                   [] l = 1 -> TowerLevelStats(75, 27, 650, 22, 0)
                   [] l = 2 -> TowerLevelStats(100, 30, 900, 25, 0)
                   [] l = 3 -> TowerLevelStats(150, 33, 1300, 30, 0)]
         [] t = TOWER_SLOW ->
              [l \in 0 .. MAX_TOWER_LEVEL - 1 |->
                 CASE l = 0 -> TowerLevelStats(60, 20, 5, 10, 0)
                   [] l = 1 -> TowerLevelStats(80, 22, 4, 10, 0)
                   [] l = 2 -> TowerLevelStats(100, 24, 3, 10, 0)
                   [] l = 3 -> TowerLevelStats(140, 26, 2, 10, 0)]
         [] t = TOWER_SPLASH ->
              [l \in 0 .. MAX_TOWER_LEVEL - 1 |->
                 CASE l = 0 -> TowerLevelStats(100, 22, 500, 8, 8)
                   [] l = 1 -> TowerLevelStats(120, 24, 700, 9, 9)
                   [] l = 2 -> TowerLevelStats(160, 26, 1000, 10, 10)
                   [] l = 3 -> TowerLevelStats(220, 28, 1400, 11, 11)]]

\* InitializeEnemyTypes: enemyTypes[type] (colour and radius are visual)
enemyTypes ==
    [t \in 0 .. ENEMY_TYPE_COUNT - 1 |->
       CASE t = ENEMY_NORMAL -> [speed |-> 8,  maxHealth |-> 1000,   money |-> 5]
         [] t = ENEMY_SCOUT  -> [speed |-> 16, maxHealth |-> 600,    money |-> 8]
         [] t = ENEMY_TANK   -> [speed |-> 4,  maxHealth |-> 4000,   money |-> 15]
         [] t = ENEMY_BOSS   -> [speed |-> 3,  maxHealth |-> 100000, money |-> 500]]

\* 1.0f / stats.fireRate, in time units
FireInterval(stats) == (10 * Second) \div stats.fireRate

\* 1.0f / (enemyTypes[type].speed * speedMultiplier), in time units
MoveInterval(type, speedMultiplier) ==
    (20 * Second) \div (enemyTypes[type].speed * speedMultiplier)

---------------------------------------------------------------------------
(* Vector2 arithmetic on positions [x, y, d] standing for (x/d, y/d) pixels *)

RECURSIVE GCD(_, _)
GCD(a, b) == IF b = 0 THEN a ELSE GCD(b, a % b)

Abs(a) == IF a < 0 THEN -a ELSE a

\* the members of a finite set of integers in ascending order: the order in
\* which a for loop over indices meets them
RECURSIVE Ascending(_)
Ascending(S) ==
    IF S = {} THEN <<>>
    ELSE LET m == CHOOSE x \in S : \A y \in S : x <= y
         IN  <<m>> \o Ascending(S \ {m})

Vec(x, y) == [x |-> x, y |-> y, d |-> 1]

\* centre of a grid cell on the screen
ScreenPos(cell) ==
    Vec(cell[1] * cellWidth + cellWidth \div 2, cell[2] * cellHeight + cellHeight \div 2)

\* Vector2Lerp(a, b, n/d) for integer points a, b and 0 <= n/d <= 1
Vector2Lerp(a, b, n, d) ==
    LET g == GCD(n, d)
        dd == d \div g
        nn == n \div g
    IN  [x |-> a.x * dd + (b.x - a.x) * nn, y |-> a.y * dd + (b.y - a.y) * nn, d |-> dd]

\* Vector2DistanceSqr(a, b) compared with r * r:  -1 below, 0 equal, 1 above
DistanceSqrCmp(a, b, r) ==
    LET D  == (a.d * b.d) \div GCD(a.d, b.d)
        ex == Abs(a.x * (D \div a.d) - b.x * (D \div b.d))
        ey == Abs(a.y * (D \div a.d) - b.y * (D \div b.d))
        R  == r * D
    IN  IF ex > R \/ ey > R THEN 1
        ELSE LET q == ex * ex + ey * ey
             IN  IF q > R * R THEN 1 ELSE IF q = R * R THEN 0 ELSE -1

\* CheckCollisionPointCircle(point, center, radius) of raylib
CheckCollisionPointCircle(point, center, radius) ==
    DistanceSqrCmp(point, center, radius) <= 0

\* progress values [n, d] standing for n/d
ProgressGreater(p, q) == p.n * q.d > q.n * p.d

---------------------------------------------------------------------------
(* The run state as a record, so that the C functions compose in order.     *)
(* Fields are the globals of the same names; hist is history.               *)

Game ==
    [towers |-> towers, activeWave |-> activeWave, projectiles |-> projectiles,
     gameState |-> gameState, playerHealth |-> playerHealth,
     playerMoney |-> playerMoney, currentWaveNumber |-> currentWaveNumber,
     gameSpeed |-> gameSpeed, g_isPaused |-> g_isPaused,
     g_selectedTowerX |-> g_selectedTowerX, g_selectedTowerY |-> g_selectedTowerY,
     g_selectedBuildType |-> g_selectedBuildType, hist |-> hist]

\* zero-initialised globals
ZeroEnemy ==
    [pos |-> Vec(0, 0), type |-> 0, pathIndex |-> 0, moveTimer |-> 0,
     active |-> FALSE, health |-> 0, maxHealth |-> 0, speedMultiplier |-> 0,
     slowTimer |-> 0, progress |-> [n |-> 0, d |-> 1]]

ZeroWave ==
    [enemies |-> [i \in 0 .. MAX_ENEMIES_PER_WAVE - 1 |-> ZeroEnemy],
     enemyCount |-> 0, spawnTimer |-> 0, enemiesSpawned |-> 0, isFinished |-> FALSE]

ZeroTower ==
    [pos |-> <<0, 0>>, active |-> FALSE, type |-> 0, level |-> 0,
     fireCooldown |-> 0, targetIndex |-> 0]

\* InitializeGame (the stats tables it fills are the constants above)
InitializeGame(s) ==
    [s EXCEPT !.playerHealth = PLAYER_START_HEALTH,
              !.playerMoney = PLAYER_START_MONEY,
              !.currentWaveNumber = 0,
              !.gameState = GAME_STATE_WAVE_TRANSITION,
              !.g_selectedTowerX = -1,
              !.g_selectedTowerY = -1,
              !.g_selectedBuildType = -1,
              !.gameSpeed = 1,
              !.g_isPaused = FALSE,
              !.projectiles = <<>>,
              !.towers = [c \in Cells |-> [s.towers[c] EXCEPT !.active = FALSE]],
              !.hist = [s.hist EXCEPT !.leaks = 0]]

\* a variant of RestartGame that forgets to clear the towers
RestartKeepsTowers(s) == [InitializeGame(s) EXCEPT !.towers = s.towers]

RestartGame(s) == InitializeGame(s)

---------------------------------------------------------------------------
(* Wave Generator: CreateWave *)

\* EnemyTypeCounts adding one scout a wave, not two, in the late waves
EnemyTypeCountsOneScoutAWave(waveNumber) ==
    LET z == [t \in 0 .. ENEMY_TYPE_COUNT - 1 |-> 0]
    IN  CASE waveNumber = 1 -> [z EXCEPT ![ENEMY_NORMAL] = 10]
          [] waveNumber = 2 -> [z EXCEPT ![ENEMY_NORMAL] = 15]
          [] waveNumber = 3 -> [z EXCEPT ![ENEMY_NORMAL] = 10, ![ENEMY_SCOUT] = 5]
          [] waveNumber = 4 -> [z EXCEPT ![ENEMY_NORMAL] = 15, ![ENEMY_SCOUT] = 8]
          [] waveNumber = 5 -> [z EXCEPT ![ENEMY_SCOUT] = 20]
          [] waveNumber = 6 -> [z EXCEPT ![ENEMY_NORMAL] = 10, ![ENEMY_TANK] = 3]
          [] waveNumber = 7 -> [z EXCEPT ![ENEMY_NORMAL] = 15, ![ENEMY_SCOUT] = 10,
                                         ![ENEMY_TANK] = 5]
          [] waveNumber = 8 -> [z EXCEPT ![ENEMY_TANK] = 10]
          [] waveNumber \notin 1 .. 8 /\ waveNumber = MAX_WAVES ->
                 [z EXCEPT ![ENEMY_BOSS] = 1]
          [] OTHER ->
                 [z EXCEPT ![ENEMY_NORMAL] = 10 + waveNumber,
                           ![ENEMY_SCOUT] = IF waveNumber > 5
                                            THEN 5 + (waveNumber - 5) ELSE 0,
                           ![ENEMY_TANK] = IF waveNumber > 8
                                           THEN 2 + (waveNumber - 8) ELSE 0]

\* int enemyTypeCounts[ENEMY_TYPE_COUNT] after the if / else-if chain
EnemyTypeCounts(waveNumber) ==
    LET z == [t \in 0 .. ENEMY_TYPE_COUNT - 1 |-> 0]
    IN  CASE waveNumber = 1 -> [z EXCEPT ![ENEMY_NORMAL] = 10]
          [] waveNumber = 2 -> [z EXCEPT ![ENEMY_NORMAL] = 15]
          [] waveNumber = 3 -> [z EXCEPT ![ENEMY_NORMAL] = 10, ![ENEMY_SCOUT] = 5]
          [] waveNumber = 4 -> [z EXCEPT ![ENEMY_NORMAL] = 15, ![ENEMY_SCOUT] = 8]
          [] waveNumber = 5 -> [z EXCEPT ![ENEMY_SCOUT] = 20]
          [] waveNumber = 6 -> [z EXCEPT ![ENEMY_NORMAL] = 10, ![ENEMY_TANK] = 3]
          [] waveNumber = 7 -> [z EXCEPT ![ENEMY_NORMAL] = 15, ![ENEMY_SCOUT] = 10,
                                         ![ENEMY_TANK] = 5]
          [] waveNumber = 8 -> [z EXCEPT ![ENEMY_TANK] = 10]
          [] waveNumber \notin 1 .. 8 /\ waveNumber = MAX_WAVES ->
                 [z EXCEPT ![ENEMY_BOSS] = 1]
          [] OTHER ->
                 [z EXCEPT ![ENEMY_NORMAL] = 10 + waveNumber,
                           ![ENEMY_SCOUT] = IF waveNumber > 5
                                            THEN 5 + (waveNumber - 5) * 2 ELSE 0,
                           ![ENEMY_TANK] = IF waveNumber > 8
                                           THEN 2 + (waveNumber - 8) ELSE 0]

\* float healthMultiplier, in tenths
HealthMultiplier(waveNumber) ==
    IF waveNumber \notin 1 .. 8 /\ waveNumber = MAX_WAVES
    THEN 10
    ELSE 10 + (waveNumber - 1) * 2

\* The type of the member laid out at index i by the nested loops, or -1
\* when the loops do not reach index i.
RECURSIVE TypeAtIndex(_, _, _)
TypeAtIndex(counts, i, type) ==
    IF type >= ENEMY_TYPE_COUNT THEN -1
    ELSE IF i < counts[type] THEN type
    ELSE TypeAtIndex(counts, i - counts[type], type + 1)

RECURSIVE SumCounts(_, _)
SumCounts(counts, type) ==
    IF type >= ENEMY_TYPE_COUNT THEN 0
    ELSE counts[type] + SumCounts(counts, type + 1)

\* CreateWave leaving a maxHealth that was set before as it is
CreateWaveKeepsSetHealth(s, waveNumber) ==
    LET counts == EnemyTypeCounts(waveNumber)
        total  == SumCounts(counts, 0)
        enemyCount == IF total > MAX_ENEMIES_PER_WAVE
                      THEN MAX_ENEMIES_PER_WAVE ELSE total
        member(i, e) ==
            IF i < enemyCount /\ TypeAtIndex(counts, i, 0) # -1
            THEN LET type == TypeAtIndex(counts, i, 0)
                 IN  [e EXCEPT !.active = FALSE,
                               !.type = type,
                               !.maxHealth = IF e.maxHealth > 0 THEN e.maxHealth
                                             ELSE (enemyTypes[type].maxHealth
                                                   * HealthMultiplier(waveNumber)) \div 10,
                               !.speedMultiplier = 10,
                               !.slowTimer = 0]
            ELSE e
    IN  [s EXCEPT !.activeWave =
            [enemies |-> [i \in 0 .. MAX_ENEMIES_PER_WAVE - 1 |->
                             member(i, s.activeWave.enemies[i])],
             enemyCount |-> enemyCount,
             spawnTimer |-> 0,
             enemiesSpawned |-> 0,
             isFinished |-> FALSE]]

CreateWave(s, waveNumber) ==
    LET counts == EnemyTypeCounts(waveNumber)
        total  == SumCounts(counts, 0)
        enemyCount == IF total > MAX_ENEMIES_PER_WAVE
                      THEN MAX_ENEMIES_PER_WAVE ELSE total
        member(i, e) ==
            IF i < enemyCount /\ TypeAtIndex(counts, i, 0) # -1
            THEN LET type == TypeAtIndex(counts, i, 0)
                 IN  [e EXCEPT !.active = FALSE,
                               !.type = type,
                               !.maxHealth = (enemyTypes[type].maxHealth
                                              * HealthMultiplier(waveNumber)) \div 10,
                               !.speedMultiplier = 10,
                               !.slowTimer = 0]
            ELSE e
    IN  [s EXCEPT !.activeWave =
            [enemies |-> [i \in 0 .. MAX_ENEMIES_PER_WAVE - 1 |->
                             member(i, s.activeWave.enemies[i])],
             enemyCount |-> enemyCount,
             spawnTimer |-> 0,
             enemiesSpawned |-> 0,
             isFinished |-> FALSE]]

---------------------------------------------------------------------------
(* Targeting & Combat Resolver: FireProjectile, UpdateTowers *)

PROJECTILE_LIFE == (15 * Second) \div 100

\* FireProjectile with room for a single effect
FireProjectileDropsSecond(projs) ==
    IF Len(projs) < 1 THEN Append(projs, PROJECTILE_LIFE) ELSE projs

\* FireProjectile: only the lifeTimer of a projectile matters to the core
FireProjectile(projs) ==
    IF Len(projs) < MAX_PROJECTILES THEN Append(projs, PROJECTILE_LIFE) ELSE projs

\* the slow tower's loop slowing every active enemy of the wave
SlowPulseWholeWave(wave, towerScreenPos, stats) ==
    [wave EXCEPT !.enemies =
        [i \in DOMAIN wave.enemies |->
            LET enemy == wave.enemies[i]
            IN  IF i < wave.enemyCount /\ enemy.active
                THEN [enemy EXCEPT !.speedMultiplier = stats.damage,
                                   !.slowTimer = FireInterval(stats) + Second \div 10]
                ELSE enemy]]

\* the slow tower's loop over the wave: every active enemy within range
SlowPulse(wave, towerScreenPos, stats) ==
    [wave EXCEPT !.enemies =
        [i \in DOMAIN wave.enemies |->
            LET enemy == wave.enemies[i]
            IN  IF /\ i < wave.enemyCount
                   /\ enemy.active
                   /\ CheckCollisionPointCircle(enemy.pos, towerScreenPos, stats.range)
                THEN [enemy EXCEPT !.speedMultiplier = stats.damage,
                                   !.slowTimer = FireInterval(stats) + Second \div 10]
                ELSE enemy]]

\* indices the loops over the wave do not skip: i < enemyCount, active
ActiveIndices(wave) ==
    Ascending({i \in 0 .. wave.enemyCount - 1 : wave.enemies[i].active})

\* the acquisition loop over the active members, from the j-th on:
\* [maxProgress, bestTargetIndex]
RECURSIVE AcquireLoop(_, _, _, _, _, _)
AcquireLoop(wave, towerScreenPos, stats, idx, j, best) ==
    IF j > Len(idx) THEN best
    ELSE LET enemy == wave.enemies[idx[j]]
         IN  IF /\ DistanceSqrCmp(towerScreenPos, enemy.pos, stats.range) <= 0
                /\ ProgressGreater(enemy.progress, best.maxProgress)
             THEN AcquireLoop(wave, towerScreenPos, stats, idx, j + 1,
                      [maxProgress |-> enemy.progress, bestTargetIndex |-> idx[j]])
             ELSE AcquireLoop(wave, towerScreenPos, stats, idx, j + 1, best)

AcquireTarget(wave, towerScreenPos, stats) ==
    AcquireLoop(wave, towerScreenPos, stats, ActiveIndices(wave), 1,
        [maxProgress |-> [n |-> -1, d |-> 1], bestTargetIndex |-> -1]).bestTargetIndex

\* ValidateTarget dropping a target that is no longer the one furthest along
ValidateTargetRetargets(wave, towerScreenPos, stats, targetIndex) ==
    IF targetIndex # -1
    THEN LET target == wave.enemies[targetIndex]
         IN  IF \/ ~target.active
                \/ DistanceSqrCmp(towerScreenPos, target.pos, stats.range) > 0
                \/ AcquireTarget(wave, towerScreenPos, stats) # targetIndex
             THEN -1 ELSE targetIndex
    ELSE targetIndex

\* ValidateTarget without the test that the target is active
ValidateTargetIgnoresDeath(wave, towerScreenPos, stats, targetIndex) ==
    IF targetIndex # -1
    THEN LET target == wave.enemies[targetIndex]
         IN  IF DistanceSqrCmp(towerScreenPos, target.pos, stats.range) > 0
             THEN -1 ELSE targetIndex
    ELSE targetIndex

\* target validation: the targetIndex after the first if block
ValidateTarget(wave, towerScreenPos, stats, targetIndex) ==
    IF targetIndex # -1
    THEN LET target == wave.enemies[targetIndex]
         IN  IF \/ ~target.active
                \/ DistanceSqrCmp(towerScreenPos, target.pos, stats.range) > 0
             THEN -1 ELSE targetIndex
    ELSE targetIndex

\* ApplyDamage with a splash shot that hits every active enemy of the wave
ApplyDamageHitsWholeWave(wave, type, stats, targetIndex) ==
    IF type = TOWER_GUN
    THEN [wave EXCEPT !.enemies[targetIndex].health = @ - stats.damage]
    ELSE IF type = TOWER_SPLASH
    THEN [wave EXCEPT !.enemies =
            [i \in DOMAIN wave.enemies |->
                IF i < wave.enemyCount /\ wave.enemies[i].active
                THEN [wave.enemies[i] EXCEPT !.health = @ - stats.damage]
                ELSE wave.enemies[i]]]
    ELSE wave

\* ApplyDamage with the sign of the damage reversed
ApplyDamageAdds(wave, type, stats, targetIndex) ==
    LET target == wave.enemies[targetIndex]
        hit(i) ==
            /\ i < wave.enemyCount
            /\ wave.enemies[i].active
            /\ DistanceSqrCmp(target.pos, wave.enemies[i].pos, stats.splashRadius) < 0
    IN  IF type = TOWER_GUN
        THEN [wave EXCEPT !.enemies[targetIndex].health = @ + stats.damage]
        ELSE IF type = TOWER_SPLASH
        THEN [wave EXCEPT !.enemies =
                [i \in DOMAIN wave.enemies |->
                    IF hit(i)
                    THEN [wave.enemies[i] EXCEPT !.health = @ + stats.damage]
                    ELSE wave.enemies[i]]]
        ELSE wave

\* damage of one shot: the gun hits its target, the splash tower every
\* active enemy strictly within splashRadius of the target's position
ApplyDamage(wave, type, stats, targetIndex) ==
    LET target == wave.enemies[targetIndex]
        hit(i) ==
            /\ i < wave.enemyCount
            /\ wave.enemies[i].active
            /\ DistanceSqrCmp(target.pos, wave.enemies[i].pos, stats.splashRadius) < 0
    IN  IF type = TOWER_GUN
        THEN [wave EXCEPT !.enemies[targetIndex].health = @ - stats.damage]
        ELSE IF type = TOWER_SPLASH
        THEN [wave EXCEPT !.enemies =
                [i \in DOMAIN wave.enemies |->
                    IF hit(i)
                    THEN [wave.enemies[i] EXCEPT !.health = @ - stats.damage]
                    ELSE wave.enemies[i]]]
        ELSE wave

Dead(wave, i) ==
    i < wave.enemyCount /\ wave.enemies[i].active /\ wave.enemies[i].health <= 0

\* the members the sweep after a shot finds dead
DeadIndices(wave) == {i \in 0 .. wave.enemyCount - 1 : Dead(wave, i)}

\* the kill sweep stopping at the first enemy it deactivates
SweepDeadStopsAtFirst(wave) ==
    LET dead == {i \in 0 .. wave.enemyCount - 1 :
                   wave.enemies[i].active /\ wave.enemies[i].health <= 0}
    IN  IF dead = {} THEN wave
        ELSE LET first == CHOOSE i \in dead : \A k \in dead : i <= k
             IN  [wave EXCEPT !.enemies[first].active = FALSE]

\* the sweep after a shot: deactivate the dead
SweepDead(wave) ==
    LET dead == DeadIndices(wave)
    IN  IF dead = {} THEN wave
        ELSE [wave EXCEPT !.enemies =
                [i \in DOMAIN wave.enemies |->
                    IF i \in dead THEN [wave.enemies[i] EXCEPT !.active = FALSE]
                    ELSE wave.enemies[i]]]

\* the money the sweep adds: the rewards of the dead
RECURSIVE SumRewards(_, _)
SumRewards(wave, dead) ==
    IF dead = {} THEN 0
    ELSE LET i == CHOOSE x \in dead : TRUE
         IN  enemyTypes[wave.enemies[i].type].money + SumRewards(wave, dead \ {i})

SweepRewards(wave) == SumRewards(wave, DeadIndices(wave))

\* the body of UpdateTowers' loops for the tower on cell c
UpdateTower(s, c, dt) ==
    LET tower == s.towers[c]
        stats == g_towerStats[tower.type][tower.level]
        cooldown == IF tower.fireCooldown > 0 THEN tower.fireCooldown - dt
                    ELSE tower.fireCooldown
        towerScreenPos == ScreenPos(tower.pos)
        wave == s.activeWave
    IN  IF ~tower.active THEN s
        ELSE IF tower.type = TOWER_SLOW
        THEN IF cooldown <= 0
             THEN [s EXCEPT !.activeWave = SlowPulse(wave, towerScreenPos, stats),
                            !.towers[c].fireCooldown = FireInterval(stats)]
             ELSE [s EXCEPT !.towers[c].fireCooldown = cooldown]
        ELSE LET valid  == ValidateTarget(wave, towerScreenPos, stats, tower.targetIndex)
                 target == IF valid = -1
                           THEN AcquireTarget(wave, towerScreenPos, stats)
                           ELSE valid
             IN  IF target # -1 /\ cooldown <= 0
                 THEN LET hitWave == ApplyDamage(wave, tower.type, stats, target)
                      IN  [s EXCEPT
                             !.activeWave = SweepDead(hitWave),
                             !.playerMoney = @ + SweepRewards(hitWave),
                             !.projectiles = FireProjectile(@),
                             !.towers[c].fireCooldown = FireInterval(stats),
                             !.towers[c].targetIndex =
                                 IF Dead(hitWave, target) THEN -1 ELSE target]
                 ELSE [s EXCEPT !.towers[c].fireCooldown = cooldown,
                                !.towers[c].targetIndex = target]

\* for (x ...) for (y ...): cell k of the scan, k = 0 .. GRID_SIZE^2 - 1
ScanCell(k) == <<k \div GRID_SIZE, k % GRID_SIZE>>

\* the scan positions the loops do not skip (no tower changes its active
\* flag during UpdateTowers), in scan order
ActiveScan(s) ==
    Ascending({k \in 0 .. GRID_SIZE * GRID_SIZE - 1 : s.towers[ScanCell(k)].active})

RECURSIVE UpdateTowersFrom(_, _, _, _)
UpdateTowersFrom(s, scan, j, dt) ==
    IF j > Len(scan) THEN s
    ELSE UpdateTowersFrom(UpdateTower(s, ScanCell(scan[j]), dt), scan, j + 1, dt)

UpdateTowers(s, dt) == UpdateTowersFrom(s, ActiveScan(s), 1, dt)

---------------------------------------------------------------------------
(* Spawn Sequencer: UpdateWave *)

\* UpdateWave spawning every enemy with the health of its kind
UpdateWaveSpawnsAtBaseHealth(wave, dt) ==
    IF wave.enemiesSpawned >= wave.enemyCount
    THEN [wave EXCEPT !.isFinished = TRUE]
    ELSE IF wave.spawnTimer + dt >= SPAWN_INTERVAL
    THEN [wave EXCEPT
            !.spawnTimer = 0,
            !.enemies[wave.enemiesSpawned] =
                [@ EXCEPT !.active = TRUE,
                          !.pos = ScreenPos(path[0]),
                          !.pathIndex = 0,
                          !.moveTimer = 0,
                          !.maxHealth =
                              enemyTypes[wave.enemies[wave.enemiesSpawned].type].maxHealth,
                          !.health =
                              enemyTypes[wave.enemies[wave.enemiesSpawned].type].maxHealth],
            !.enemiesSpawned = @ + 1]
    ELSE [wave EXCEPT !.spawnTimer = @ + dt]

\* UpdateWave carrying the time beyond SPAWN_INTERVAL over to the next spawn
UpdateWaveKeepsOverflow(wave, dt) ==
    IF wave.enemiesSpawned >= wave.enemyCount
    THEN [wave EXCEPT !.isFinished = TRUE]
    ELSE IF wave.spawnTimer + dt >= SPAWN_INTERVAL
    THEN [wave EXCEPT
            !.spawnTimer = wave.spawnTimer + dt - SPAWN_INTERVAL,
            !.enemies[wave.enemiesSpawned] =
                [@ EXCEPT !.active = TRUE,
                          !.pos = ScreenPos(path[0]),
                          !.pathIndex = 0,
                          !.moveTimer = 0,
                          !.health = wave.enemies[wave.enemiesSpawned].maxHealth],
            !.enemiesSpawned = @ + 1]
    ELSE [wave EXCEPT !.spawnTimer = @ + dt]

UpdateWave(wave, dt) ==
    IF wave.enemiesSpawned >= wave.enemyCount
    THEN [wave EXCEPT !.isFinished = TRUE]
    ELSE IF wave.spawnTimer + dt >= SPAWN_INTERVAL
    THEN [wave EXCEPT
            !.spawnTimer = 0,
            !.enemies[wave.enemiesSpawned] =
                [@ EXCEPT !.active = TRUE,
                          !.pos = ScreenPos(path[0]),
                          !.pathIndex = 0,
                          !.moveTimer = 0,
                          !.health = wave.enemies[wave.enemiesSpawned].maxHealth],
            !.enemiesSpawned = @ + 1]
    ELSE [wave EXCEPT !.spawnTimer = @ + dt]

---------------------------------------------------------------------------
(* Enemy Motion Model: UpdateEnemies *)

\* the slow-timer block resetting the multiplier as soon as the timer runs out
SlowStepResetsAtOnce(enemy, dt) ==
    IF enemy.slowTimer > 0
    THEN [enemy EXCEPT !.slowTimer = @ - dt,
                       !.speedMultiplier = IF enemy.slowTimer - dt <= 0 THEN 10 ELSE @]
    ELSE [enemy EXCEPT !.speedMultiplier = 10]

\* the slow-timer block at the top of the loop body
SlowStep(enemy, dt) ==
    IF enemy.slowTimer > 0
    THEN [enemy EXCEPT !.slowTimer = @ - dt]
    ELSE [enemy EXCEPT !.speedMultiplier = 10]

\* the movement block of the loop body, for an enemy not at the last index
MoveStep(enemy, dt) ==
    LET moveInterval == MoveInterval(enemy.type, enemy.speedMultiplier)
        moveTimer == enemy.moveTimer + dt
        startScreenPos == ScreenPos(path[enemy.pathIndex])
        targetScreenPos == ScreenPos(path[enemy.pathIndex + 1])
        arrived == moveTimer >= moveInterval
    IN  IF arrived
        THEN [enemy EXCEPT
                !.pathIndex = @ + 1,
                !.moveTimer = moveTimer - moveInterval,
                !.pos = Vector2Lerp(startScreenPos, targetScreenPos, 1, 1),
                !.progress = [n |-> enemy.pathIndex + 2, d |-> 1]]
        ELSE LET pos == Vector2Lerp(startScreenPos, targetScreenPos,
                                    moveTimer, moveInterval)
             IN  [enemy EXCEPT
                    !.moveTimer = moveTimer,
                    !.pos = pos,
                    !.progress = [n |-> enemy.pathIndex * pos.d
                                        + moveTimer \div (moveInterval \div pos.d),
                                  d |-> pos.d]]

\* the loop body leaving an enemy at the end of the path active
UpdateEnemyKeepsLeaker(s, i, dt) ==
    LET enemy == s.activeWave.enemies[i]
        slowed == SlowStep(enemy, dt)
    IN  IF ~enemy.active THEN s
        ELSE IF slowed.pathIndex >= pathLength - 1
        THEN [s EXCEPT
                !.activeWave.enemies[i] = slowed,
                !.playerHealth = IF @ - 1 <= 0 THEN 0 ELSE @ - 1,
                !.gameState = IF s.playerHealth - 1 <= 0
                              THEN GAME_STATE_GAME_OVER ELSE @,
                !.hist.leaks = @ + 1]
        ELSE [s EXCEPT !.activeWave.enemies[i] = MoveStep(slowed, dt)]

\* the loop body for enemy i
UpdateEnemy(s, i, dt) ==
    LET enemy == s.activeWave.enemies[i]
        slowed == SlowStep(enemy, dt)
    IN  IF ~enemy.active THEN s
        ELSE IF slowed.pathIndex >= pathLength - 1
        THEN [s EXCEPT
                !.activeWave.enemies[i] = [slowed EXCEPT !.active = FALSE],
                !.playerHealth = IF @ - 1 <= 0 THEN 0 ELSE @ - 1,
                !.gameState = IF s.playerHealth - 1 <= 0
                              THEN GAME_STATE_GAME_OVER ELSE @,
                !.hist.leaks = @ + 1]
        ELSE [s EXCEPT !.activeWave.enemies[i] = MoveStep(slowed, dt)]

\* the loop over the wave, from the j-th active member on (an enemy's active
\* flag is changed by its own iteration only)
RECURSIVE UpdateEnemiesFrom(_, _, _, _)
UpdateEnemiesFrom(s, idx, j, dt) ==
    IF j > Len(idx) THEN s
    ELSE UpdateEnemiesFrom(UpdateEnemy(s, idx[j], dt), idx, j + 1, dt)

UpdateEnemies(s, dt) == UpdateEnemiesFrom(s, ActiveIndices(s.activeWave), 1, dt)

---------------------------------------------------------------------------
(* Economy & Progress State Machine *)

\* a variant of CheckWaveCompletion that does not test the wave number
CheckWaveCompletionAnyWave(s) ==
    IF ~s.activeWave.isFinished THEN s
    ELSE IF \E i \in 0 .. s.activeWave.enemyCount - 1 : s.activeWave.enemies[i].active
    THEN s
    ELSE [s EXCEPT !.gameState = GAME_STATE_VICTORY]

\* a variant of CheckWaveCompletion that does not wait for the last spawn
CheckWaveCompletionEager(s) ==
    IF \E i \in 0 .. s.activeWave.enemyCount - 1 : s.activeWave.enemies[i].active
    THEN s
    ELSE IF s.currentWaveNumber >= MAX_WAVES
    THEN [s EXCEPT !.gameState = GAME_STATE_VICTORY]
    ELSE [s EXCEPT !.gameState = GAME_STATE_WAVE_TRANSITION]

CheckWaveCompletion(s) ==
    IF ~s.activeWave.isFinished THEN s
    ELSE IF \E i \in 0 .. s.activeWave.enemyCount - 1 : s.activeWave.enemies[i].active
    THEN s
    ELSE IF s.currentWaveNumber >= MAX_WAVES
    THEN [s EXCEPT !.gameState = GAME_STATE_VICTORY]
    ELSE [s EXCEPT !.gameState = GAME_STATE_WAVE_TRANSITION]


\* Input of one frame: IsKeyPressed(KEY_P / KEY_F / KEY_R),
\* IsMouseButtonPressed(MOUSE_BUTTON_RIGHT / MOUSE_BUTTON_LEFT), GetMousePosition()
NoInput ==
    [keyP |-> FALSE, keyF |-> FALSE, keyR |-> FALSE,
     right |-> FALSE, left |-> FALSE, mouse |-> <<0, 0>>]

\* CheckCollisionPointRec(point, rec) of raylib
CheckCollisionPointRec(point, rec) ==
    /\ point[1] >= rec.x /\ point[1] < rec.x + rec.width
    /\ point[2] >= rec.y /\ point[2] < rec.y + rec.height

\* HandleInput storing the mouse position as the tower's position
HandleInputStoresMouse(s, in) ==
    LET s1 == IF in.keyP THEN [s EXCEPT !.g_isPaused = ~@] ELSE s
        s2 == IF in.keyF THEN [s1 EXCEPT !.gameSpeed = IF @ = 1 THEN 2 ELSE 1] ELSE s1
        s3 == IF in.right
              THEN [s2 EXCEPT !.g_selectedBuildType = -1,
                              !.g_selectedTowerX = -1,
                              !.g_selectedTowerY = -1]
              ELSE s2
        gridX == in.mouse[1] \div cellWidth
        gridY == in.mouse[2] \div cellHeight
        cell  == <<gridX, gridY>>
        isMouseOnGameArea == in.mouse[1] < GAME_AREA_WIDTH /\ in.mouse[1] > 0
    IN  IF ~(isMouseOnGameArea /\ in.left) THEN s3
        ELSE IF s3.g_selectedBuildType # -1
        THEN IF walls[cell] /\ ~s3.towers[cell].active
             THEN LET cost == g_towerStats[s3.g_selectedBuildType][0].cost
                  IN  IF s3.playerMoney >= cost
                      THEN [s3 EXCEPT
                              !.playerMoney = @ - cost,
                              !.towers[cell] =
                                  [pos |-> in.mouse, active |-> TRUE,
                                   type |-> s3.g_selectedBuildType, level |-> 0,
                                   fireCooldown |-> 0, targetIndex |-> -1],
                              !.g_selectedBuildType = -1]
                      ELSE s3
             ELSE s3
        ELSE IF s3.towers[cell].active
             THEN [s3 EXCEPT !.g_selectedTowerX = gridX, !.g_selectedTowerY = gridY]
             ELSE [s3 EXCEPT !.g_selectedTowerX = -1, !.g_selectedTowerY = -1]

\* HandleInput without the test that the cell holds no tower
HandleInputBuildsOver(s, in) ==
    LET s1 == IF in.keyP THEN [s EXCEPT !.g_isPaused = ~@] ELSE s
        s2 == IF in.keyF THEN [s1 EXCEPT !.gameSpeed = IF @ = 1 THEN 2 ELSE 1] ELSE s1
        s3 == IF in.right
              THEN [s2 EXCEPT !.g_selectedBuildType = -1,
                              !.g_selectedTowerX = -1,
                              !.g_selectedTowerY = -1]
              ELSE s2
        gridX == in.mouse[1] \div cellWidth
        gridY == in.mouse[2] \div cellHeight
        cell  == <<gridX, gridY>>
        isMouseOnGameArea == in.mouse[1] < GAME_AREA_WIDTH /\ in.mouse[1] > 0
    IN  IF ~(isMouseOnGameArea /\ in.left) THEN s3
        ELSE IF s3.g_selectedBuildType # -1
        THEN IF walls[cell]
             THEN LET cost == g_towerStats[s3.g_selectedBuildType][0].cost
                  IN  IF s3.playerMoney >= cost
                      THEN [s3 EXCEPT
                              !.playerMoney = @ - cost,
                              !.towers[cell] =
                                  [pos |-> cell, active |-> TRUE,
                                   type |-> s3.g_selectedBuildType, level |-> 0,
                                   fireCooldown |-> 0, targetIndex |-> -1],
                              !.g_selectedBuildType = -1]
                      ELSE s3
             ELSE s3
        ELSE IF s3.towers[cell].active
             THEN [s3 EXCEPT !.g_selectedTowerX = gridX, !.g_selectedTowerY = gridY]
             ELSE [s3 EXCEPT !.g_selectedTowerX = -1, !.g_selectedTowerY = -1]

\* a variant of HandleInput that builds on any free cell, wall or not
HandleInputBuildsAnywhere(s, in) ==
    LET s1 == IF in.keyP THEN [s EXCEPT !.g_isPaused = ~@] ELSE s
        s2 == IF in.keyF THEN [s1 EXCEPT !.gameSpeed = IF @ = 1 THEN 2 ELSE 1] ELSE s1
        s3 == IF in.right
              THEN [s2 EXCEPT !.g_selectedBuildType = -1,
                              !.g_selectedTowerX = -1,
                              !.g_selectedTowerY = -1]
              ELSE s2
        gridX == in.mouse[1] \div cellWidth
        gridY == in.mouse[2] \div cellHeight
        cell  == <<gridX, gridY>>
        isMouseOnGameArea == in.mouse[1] < GAME_AREA_WIDTH /\ in.mouse[1] > 0
    IN  IF ~(isMouseOnGameArea /\ in.left) THEN s3
        ELSE IF s3.g_selectedBuildType # -1
        THEN IF ~s3.towers[cell].active
             THEN LET cost == g_towerStats[s3.g_selectedBuildType][0].cost
                  IN  IF s3.playerMoney >= cost
                      THEN [s3 EXCEPT
                              !.playerMoney = @ - cost,
                              !.towers[cell] =
                                  [pos |-> cell, active |-> TRUE,
                                   type |-> s3.g_selectedBuildType, level |-> 0,
                                   fireCooldown |-> 0, targetIndex |-> -1],
                              !.g_selectedBuildType = -1]
                      ELSE s3
             ELSE s3
        ELSE IF s3.towers[cell].active
             THEN [s3 EXCEPT !.g_selectedTowerX = gridX, !.g_selectedTowerY = gridY]
             ELSE [s3 EXCEPT !.g_selectedTowerX = -1, !.g_selectedTowerY = -1]

HandleInput(s, in) ==
    LET s1 == IF in.keyP THEN [s EXCEPT !.g_isPaused = ~@] ELSE s
        s2 == IF in.keyF THEN [s1 EXCEPT !.gameSpeed = IF @ = 1 THEN 2 ELSE 1] ELSE s1
        s3 == IF in.right
              THEN [s2 EXCEPT !.g_selectedBuildType = -1,
                              !.g_selectedTowerX = -1,
                              !.g_selectedTowerY = -1]
              ELSE s2
        gridX == in.mouse[1] \div cellWidth
        gridY == in.mouse[2] \div cellHeight
        cell  == <<gridX, gridY>>
        isMouseOnGameArea == in.mouse[1] < GAME_AREA_WIDTH /\ in.mouse[1] > 0
    IN  IF ~(isMouseOnGameArea /\ in.left) THEN s3
        ELSE IF s3.g_selectedBuildType # -1
        THEN IF walls[cell] /\ ~s3.towers[cell].active
             THEN LET cost == g_towerStats[s3.g_selectedBuildType][0].cost
                  IN  IF s3.playerMoney >= cost
                      THEN [s3 EXCEPT
                              !.playerMoney = @ - cost,
                              !.towers[cell] =
                                  [pos |-> cell, active |-> TRUE,
                                   type |-> s3.g_selectedBuildType, level |-> 0,
                                   fireCooldown |-> 0, targetIndex |-> -1],
                              !.g_selectedBuildType = -1]
                      ELSE s3
             ELSE s3
        ELSE IF s3.towers[cell].active
             THEN [s3 EXCEPT !.g_selectedTowerX = gridX, !.g_selectedTowerY = gridY]
             ELSE [s3 EXCEPT !.g_selectedTowerX = -1, !.g_selectedTowerY = -1]

\* a variant of UpdateGame without the early return of a paused game
UpdateGameIgnoresPause(s, dt, in) ==
    LET s1 == HandleInput(s, in)
        scaled == dt * s1.gameSpeed
    IN  CASE s1.gameState = GAME_STATE_PLAYING ->
                CheckWaveCompletion(
                  UpdateTowers(
                    UpdateEnemies(
                      [s1 EXCEPT !.activeWave = UpdateWave(@, scaled)],
                      scaled),
                    scaled))
           [] s1.gameState = GAME_STATE_WAVE_TRANSITION -> s1
           [] s1.gameState \in {GAME_STATE_GAME_OVER, GAME_STATE_VICTORY} ->
                IF in.keyR THEN RestartGame(s1) ELSE s1

\* a variant of UpdateGame that runs the towers before the motion
UpdateGameFightsFirst(s, dt, in) ==
    LET s1 == HandleInput(s, in)
        scaled == dt * s1.gameSpeed
    IN  IF s1.g_isPaused THEN s1
        ELSE CASE s1.gameState = GAME_STATE_PLAYING ->
                    CheckWaveCompletion(
                      UpdateEnemies(
                        UpdateTowers(
                          [s1 EXCEPT !.activeWave = UpdateWave(@, scaled)],
                          scaled),
                        scaled))
               [] s1.gameState = GAME_STATE_WAVE_TRANSITION -> s1
               [] s1.gameState \in {GAME_STATE_GAME_OVER, GAME_STATE_VICTORY} ->
                    IF in.keyR THEN RestartGame(s1) ELSE s1

UpdateGame(s, dt, in) ==
    LET s1 == HandleInput(s, in)
        scaled == dt * s1.gameSpeed
    IN  IF s1.g_isPaused THEN s1
        ELSE CASE s1.gameState = GAME_STATE_PLAYING ->
                    CheckWaveCompletion(
                      UpdateTowers(
                        UpdateEnemies(
                          [s1 EXCEPT !.activeWave = UpdateWave(@, scaled)],
                          scaled),
                        scaled))
               [] s1.gameState = GAME_STATE_WAVE_TRANSITION -> s1
               [] s1.gameState \in {GAME_STATE_GAME_OVER, GAME_STATE_VICTORY} ->
                    IF in.keyR THEN RestartGame(s1) ELSE s1

---------------------------------------------------------------------------
(* The parts of the frame's drawing code that change state *)

\* UpdateAndDrawProjectiles: decay, and swap-with-last removal
RECURSIVE ProjectilesFrom(_, _, _)
ProjectilesFrom(projs, i, dt) ==
    IF i > Len(projs) THEN projs
    ELSE IF projs[i] - dt > 0
    THEN ProjectilesFrom([projs EXCEPT ![i] = @ - dt], i + 1, dt)
    ELSE ProjectilesFrom(
             SubSeq([projs EXCEPT ![i] = projs[Len(projs)]], 1, Len(projs) - 1),
             i, dt)

UpdateAndDrawProjectiles(projs, dt) == ProjectilesFrom(projs, 1, dt)

\* UpgradeSelectedTower testing the money against the cost of the tower's
\* own level
UpgradeSelectedTowerTestsOwnLevel(s) ==
    IF s.g_selectedTowerX = -1 THEN s
    ELSE LET c == <<s.g_selectedTowerX, s.g_selectedTowerY>>
             tower == s.towers[c]
         IN  IF tower.level < MAX_TOWER_LEVEL - 1
             THEN LET cost == g_towerStats[tower.type][tower.level + 1].cost
                  IN  IF s.playerMoney >= g_towerStats[tower.type][tower.level].cost
                      THEN [s EXCEPT !.playerMoney = @ - cost,
                                     !.towers[c].level = @ + 1]
                      ELSE s
             ELSE s

\* UpgradeSelectedTower without the test of the money
UpgradeSelectedTowerOnCredit(s) ==
    IF s.g_selectedTowerX = -1 THEN s
    ELSE LET c == <<s.g_selectedTowerX, s.g_selectedTowerY>>
             tower == s.towers[c]
         IN  IF tower.level < MAX_TOWER_LEVEL - 1
             THEN LET cost == g_towerStats[tower.type][tower.level + 1].cost
                  IN  [s EXCEPT !.playerMoney = @ - cost,
                                !.towers[c].level = @ + 1]
             ELSE s

UpgradeSelectedTower(s) ==
    IF s.g_selectedTowerX = -1 THEN s
    ELSE LET c == <<s.g_selectedTowerX, s.g_selectedTowerY>>
             tower == s.towers[c]
         IN  IF tower.level < MAX_TOWER_LEVEL - 1
             THEN LET cost == g_towerStats[tower.type][tower.level + 1].cost
                  IN  IF s.playerMoney >= cost
                      THEN [s EXCEPT !.playerMoney = @ - cost,
                                     !.towers[c].level = @ + 1]
                      ELSE s
             ELSE s

RECURSIVE SumCosts(_, _)
SumCosts(type, level) ==
    IF level < 0 THEN 0
    ELSE g_towerStats[type][level].cost + SumCosts(type, level - 1)

\* sellValue *= 0.7f, truncated to int
SellValue(tower) == (SumCosts(tower.type, tower.level) * 7) \div 10

\* SellSelectedTower refunding the whole of the costs
SellSelectedTowerAtCost(s) ==
    IF s.g_selectedTowerX = -1 THEN s
    ELSE LET c == <<s.g_selectedTowerX, s.g_selectedTowerY>>
         IN  [s EXCEPT !.playerMoney = @ + SumCosts(s.towers[c].type, s.towers[c].level),
                       !.towers[c].active = FALSE,
                       !.g_selectedTowerX = -1,
                       !.g_selectedTowerY = -1,
                       !.hist.sold = @ + 1]

SellSelectedTower(s) ==
    IF s.g_selectedTowerX = -1 THEN s
    ELSE LET c == <<s.g_selectedTowerX, s.g_selectedTowerY>>
         IN  [s EXCEPT !.playerMoney = @ + SellValue(s.towers[c]),
                       !.towers[c].active = FALSE,
                       !.g_selectedTowerX = -1,
                       !.g_selectedTowerY = -1,
                       !.hist.sold = @ + 1]

uiX == GAME_AREA_WIDTH + 15

BuildBox(i) == [x |-> uiX - 5, y |-> 210 + 90 * i, width |-> 180, height |-> 80]
UpgradeBox == [x |-> uiX, y |-> 320, width |-> 170, height |-> 40]
SellBox == [x |-> uiX, y |-> 370, width |-> 170, height |-> 40]
StartButton == [x |-> GAME_AREA_WIDTH + 15, y |-> SCREEN_HEIGHT - 70,
                width |-> 170, height |-> 50]

\* DrawBuildUI: the loop over the build boxes
RECURSIVE DrawBuildUIFrom(_, _, _)
DrawBuildUIFrom(s, in, i) ==
    IF i >= TOWER_TYPE_COUNT THEN s
    ELSE LET canAfford == s.playerMoney >= g_towerStats[i][0].cost
         IN  IF CheckCollisionPointRec(in.mouse, BuildBox(i)) /\ in.left /\ canAfford
             THEN DrawBuildUIFrom([s EXCEPT !.g_selectedBuildType = i,
                                            !.g_selectedTowerX = -1,
                                            !.g_selectedTowerY = -1], in, i + 1)
             ELSE DrawBuildUIFrom(s, in, i + 1)

DrawBuildUI(s, in) == DrawBuildUIFrom(s, in, 0)

DrawSelectionUI(s, in) ==
    LET tower == s.towers[<<s.g_selectedTowerX, s.g_selectedTowerY>>]
        isMaxLevel == tower.level >= MAX_TOWER_LEVEL - 1
        s1 == IF ~isMaxLevel /\ CheckCollisionPointRec(in.mouse, UpgradeBox) /\ in.left
              THEN UpgradeSelectedTower(s) ELSE s
    IN  IF CheckCollisionPointRec(in.mouse, SellBox) /\ in.left
        THEN SellSelectedTower(s1) ELSE s1

\* a variant of DrawGameUI whose start button works in every phase
DrawGameUIAnyPhase(s, in) ==
    LET s1 == IF s.g_selectedTowerX # -1 THEN DrawSelectionUI(s, in)
              ELSE DrawBuildUI(s, in)
    IN  IF CheckCollisionPointRec(in.mouse, StartButton) /\ in.left
        THEN [CreateWave([s1 EXCEPT !.currentWaveNumber = @ + 1],
                         s1.currentWaveNumber + 1)
                 EXCEPT !.gameState = GAME_STATE_PLAYING,
                        !.hist.started = @ + 1]
        ELSE s1

DrawGameUI(s, in) ==
    LET s1 == IF s.g_selectedTowerX # -1 THEN DrawSelectionUI(s, in)
              ELSE DrawBuildUI(s, in)
    IN  IF /\ s1.gameState = GAME_STATE_WAVE_TRANSITION
           /\ CheckCollisionPointRec(in.mouse, StartButton) /\ in.left
        THEN [CreateWave([s1 EXCEPT !.currentWaveNumber = @ + 1],
                         s1.currentWaveNumber + 1)
                 EXCEPT !.gameState = GAME_STATE_PLAYING,
                        !.hist.started = @ + 1]
        ELSE s1

\* main's loop body after UpdateGame(dt)
DrawFrame(s, dt, in) ==
    DrawGameUI(
        [s EXCEPT !.projectiles =
            UpdateAndDrawProjectiles(@, dt * (IF s.g_isPaused THEN 0 ELSE s.gameSpeed))],
        in)

---------------------------------------------------------------------------
(* Bounds of the model and the inputs it enumerates *)

\* the player starts at most this many waves in one execution
MaxWave == 2

\* the player sells at most this many towers in one execution
MaxSold == 1

\* frame times, in time units: SetTargetFPS(60) gives frames of 1/60 s
FrameTimes == {Second \div 60}

\* the time of a frame that stalls while a wave is paused: 1/2 s
StallTimes == {Second \div 2}

\* the map of the game specification: a corridor of four cells in the top
\* row, every other cell a wall
GameOpen == {<<0, 0>>, <<1, 0>>, <<2, 0>>, <<3, 0>>}
GameWalls == [c \in Cells |-> c \notin GameOpen]
GameStart == <<0, 0>>
GameEnd == <<3, 0>>

\* mouse positions: centres of some grid cells, and points of the UI panel
CellCentre(c) == <<c[1] * cellWidth + cellWidth \div 2, c[2] * cellHeight + cellHeight \div 2>>
ClickCells == {<<1, 1>>, <<3, 1>>, <<4, 1>>, <<1, 0>>}
PointBuildGun == <<900, 250>>       \* build box 0
PointBuildSlowOrUpgrade == <<900, 340>>  \* build box 1, or the upgrade box
PointBuildSplashOrSell == <<900, 400>>   \* build box 2, or the sell box
PointStart == <<900, 750>>          \* the start-wave button
UIPoints == {PointBuildGun}

\* every point of the panel a player of the shop clicks: the three build
\* boxes, the lower two of which lie where the upgrade and sell boxes of a
\* selected tower are
CombatPoints == {PointBuildGun, PointBuildSlowOrUpgrade, PointBuildSplashOrSell}

Key(k) == [NoInput EXCEPT ![k] = TRUE]
LeftClick(p) == [NoInput EXCEPT !.left = TRUE, !.mouse = p]

---------------------------------------------------------------------------
(* Specification of the game: main's frame loop *)

Apply(s) ==
    /\ towers' = s.towers
    /\ activeWave' = s.activeWave
    /\ projectiles' = s.projectiles
    /\ gameState' = s.gameState
    /\ playerHealth' = s.playerHealth
    /\ playerMoney' = s.playerMoney
    /\ currentWaveNumber' = s.currentWaveNumber
    /\ gameSpeed' = s.gameSpeed
    /\ g_isPaused' = s.g_isPaused
    /\ g_selectedTowerX' = s.g_selectedTowerX
    /\ g_selectedTowerY' = s.g_selectedTowerY
    /\ g_selectedBuildType' = s.g_selectedBuildType
    /\ hist' = s.hist

ZeroGame ==
    [towers |-> [c \in Cells |-> ZeroTower], activeWave |-> ZeroWave,
     projectiles |-> <<>>, gameState |-> GAME_STATE_WAVE_TRANSITION,
     playerHealth |-> 0, playerMoney |-> 0, currentWaveNumber |-> 0,
     gameSpeed |-> 1, g_isPaused |-> FALSE,
     g_selectedTowerX |-> -1, g_selectedTowerY |-> -1, g_selectedBuildType |-> -1,
     hist |-> [leaks |-> 0, started |-> 0, sold |-> 0]]

\* main up to its frame loop: LoadMap's result, FindPathBFS, InitializeGame
InitOn(w, start, end) ==
    LET r == FindPathBFS(w, start, end, ZeroPath, 0)
        s == InitializeGame(ZeroGame)
    IN  /\ mapFile = ClosedFile
        /\ walls = w
        /\ startPos = start
        /\ endPos = end
        /\ r.found
        /\ routeFound = "true"
        /\ path = r.path
        /\ pathLength = r.pathLength
        /\ towers = s.towers
        /\ activeWave = s.activeWave
        /\ projectiles = s.projectiles
        /\ gameState = s.gameState
        /\ playerHealth = s.playerHealth
        /\ playerMoney = s.playerMoney
        /\ currentWaveNumber = s.currentWaveNumber
        /\ gameSpeed = s.gameSpeed
        /\ g_isPaused = s.g_isPaused
        /\ g_selectedTowerX = s.g_selectedTowerX
        /\ g_selectedTowerY = s.g_selectedTowerY
        /\ g_selectedBuildType = s.g_selectedBuildType
        /\ hist = s.hist
        /\ pc = "update"
        /\ input = NoInput
        /\ frameDt = 0

Init == InitOn(GameWalls, GameStart, GameEnd)

\* a variant of Update in which a built tower takes the place of the wall
UpdateTowerReplacesWall(dt, in) ==
    /\ pc = "update"
    /\ Apply(UpdateGame(Game, dt, in))
    /\ pc' = "draw"
    /\ input' = in
    /\ frameDt' = dt
    /\ walls' = [c \in DOMAIN walls |-> walls[c] /\ ~towers'[c].active]
    /\ UNCHANGED <<mapFile, path, pathLength, startPos, endPos, routeFound>>

\* float dt = GetFrameTime(); UpdateGame(dt);
Update(dt, in) ==
    /\ pc = "update"
    /\ Apply(UpdateGame(Game, dt, in))
    /\ pc' = "draw"
    /\ input' = in
    /\ frameDt' = dt
    /\ UNCHANGED routeVars

\* Bounds on the player of this specification.  The player shops (clicks
\* cells and build boxes, deselects) only while no wave is played, chooses
\* the game speed before the first wave, and clicks the start button of the
\* wave transition with nothing selected.  Pause, restart and the start
\* button are pressed in every phase, and a frame may stall while a wave is
\* paused.
Busy == gameState = GAME_STATE_PLAYING
NothingSelected == g_selectedBuildType = -1 /\ g_selectedTowerX = -1

FrameIdle == \E dt \in FrameTimes : Update(dt, NoInput)
FramePause == \E dt \in FrameTimes : Update(dt, Key("keyP"))
FrameSpeed ==
    /\ ~Busy /\ hist.started = 0
    /\ \E dt \in FrameTimes : Update(dt, Key("keyF"))
FrameStall == Busy /\ g_isPaused /\ \E dt \in StallTimes : Update(dt, NoInput)
FrameRestart == \E dt \in FrameTimes : Update(dt, Key("keyR"))
FrameRightClick == ~Busy /\ \E dt \in FrameTimes : Update(dt, Key("right"))
FrameClickCell ==
    ~Busy /\ \E dt \in FrameTimes, c \in ClickCells : Update(dt, LeftClick(CellCentre(c)))
FrameClickPanel ==
    ~Busy /\ \E dt \in FrameTimes, p \in UIPoints : Update(dt, LeftClick(p))
FrameClickStart ==
    /\ hist.started < MaxWave
    /\ Busy \/ NothingSelected
    /\ \E dt \in FrameTimes : Update(dt, LeftClick(PointStart))

\* the rest of the loop body: BeginDrawing() ... EndDrawing()
Draw ==
    /\ pc = "draw"
    /\ Apply(DrawFrame(Game, frameDt, input))
    /\ pc' = "update"
    /\ input' = NoInput
    /\ frameDt' = 0
    /\ UNCHANGED routeVars

Next ==
    \/ FrameIdle
    \/ FramePause
    \/ FrameStall
    \/ FrameSpeed
    \/ FrameRestart
    \/ FrameRightClick
    \/ FrameClickCell
    \/ FrameClickPanel
    \/ FrameClickStart
    \/ Draw

Spec == Init /\ [][Next]_vars

---------------------------------------------------------------------------
(* Specification of a campaign: the frame loop under one player who plays
   the game to its end *)

\* the map of the campaign: the top row, one cell down at its right end, and
\* the third row back to the left
CampaignOpen ==
    {<<x, 0>> : x \in 0 .. GRID_SIZE - 1} \cup {<<GRID_SIZE - 1, 1>>}
        \cup {<<x, 2>> : x \in 0 .. GRID_SIZE - 1}
CampaignWalls == [c \in Cells |-> c \notin CampaignOpen]
CampaignStart == <<0, 0>>
CampaignEnd == <<0, 2>>

\* the cells on which the player builds gun towers, in this order
CampaignSites ==
    <<<<0, 1>>, <<1, 1>>, <<2, 1>>, <<3, 1>>, <<4, 1>>,
      <<5, 1>>, <<6, 1>>, <<7, 1>>, <<8, 1>>, <<0, 3>>>>

\* the frame time of the campaign: a machine that draws six frames a second
CampaignFrameTimes == {Second \div 6}

InitCampaign == InitOn(CampaignWalls, CampaignStart, CampaignEnd)

\* The player.  Before the first wave the player sets double speed.  Between
\* waves the player buys while the money lasts, first a gun tower on the next
\* free site, and when every site is built the next level of the first tower
\* that has one; then the player starts the wave and watches it.
Unbuilt == {i \in 1 .. Len(CampaignSites) : ~towers[CampaignSites[i]].active}
Improvable ==
    {i \in 1 .. Len(CampaignSites) :
        towers[CampaignSites[i]].level < MAX_TOWER_LEVEL - 1}
First(S) == CHOOSE i \in S : \A j \in S : i <= j
Shopping ==
    gameState = GAME_STATE_WAVE_TRANSITION /\ gameSpeed = 2
CanBuild ==
    Unbuilt # {} /\ playerMoney >= g_towerStats[TOWER_GUN][0].cost
CanUpgrade ==
    /\ Unbuilt = {} /\ Improvable # {}
    /\ playerMoney >=
         g_towerStats[TOWER_GUN][towers[CampaignSites[First(Improvable)]].level + 1].cost
Selected(c) == g_selectedTowerX = c[1] /\ g_selectedTowerY = c[2]

CampaignSpeed ==
    /\ gameState = GAME_STATE_WAVE_TRANSITION /\ gameSpeed = 1
    /\ \E dt \in CampaignFrameTimes : Update(dt, Key("keyF"))
CampaignChoose ==
    /\ Shopping /\ CanBuild /\ g_selectedBuildType = -1
    /\ \E dt \in CampaignFrameTimes : Update(dt, LeftClick(PointBuildGun))
CampaignBuild ==
    /\ Shopping /\ CanBuild /\ g_selectedBuildType = TOWER_GUN
    /\ \E dt \in CampaignFrameTimes :
          Update(dt, LeftClick(CellCentre(CampaignSites[First(Unbuilt)])))
CampaignSelect ==
    /\ Shopping /\ CanUpgrade
    /\ ~Selected(CampaignSites[First(Improvable)])
    /\ \E dt \in CampaignFrameTimes :
          Update(dt, LeftClick(CellCentre(CampaignSites[First(Improvable)])))
CampaignUpgrade ==
    /\ Shopping /\ CanUpgrade
    /\ Selected(CampaignSites[First(Improvable)])
    /\ \E dt \in CampaignFrameTimes : Update(dt, LeftClick(PointBuildSlowOrUpgrade))
CampaignStartWave ==
    /\ \/ Shopping /\ ~CanBuild /\ ~CanUpgrade
       \/ gameState = GAME_STATE_VICTORY
    /\ \E dt \in CampaignFrameTimes : Update(dt, LeftClick(PointStart))
CampaignWatch ==
    /\ gameState = GAME_STATE_PLAYING
    /\ \E dt \in CampaignFrameTimes : Update(dt, NoInput)


\* What the player tries besides.  Between waves the player clicks the
\* upgrade box of a selected tower that has no further level or whose next
\* level the money does not cover, and a build box the money does not cover.
CampaignTryUpgrade ==
    /\ Shopping /\ g_selectedTowerX # -1
    /\ LET tower == towers[<<g_selectedTowerX, g_selectedTowerY>>]
       IN  IF tower.level >= MAX_TOWER_LEVEL - 1 THEN TRUE
           ELSE playerMoney < g_towerStats[tower.type][tower.level + 1].cost
    /\ \E dt \in CampaignFrameTimes : Update(dt, LeftClick(PointBuildSlowOrUpgrade))
CampaignTryChoose ==
    /\ Shopping /\ NothingSelected
    /\ \E dt \in CampaignFrameTimes, p \in CombatPoints, i \in 0 .. TOWER_TYPE_COUNT - 1 :
          /\ CheckCollisionPointRec(p, BuildBox(i))
          /\ playerMoney < g_towerStats[i][0].cost
          /\ Update(dt, LeftClick(p))

\* After the victory the player shops on: on the last site, on the free
\* wall cell beside it and on a cell of the path, with every kind of tower.
VictoryCells == {<<0, 3>>, <<1, 3>>, <<0, 2>>}

VictoryClickCell ==
    /\ gameState = GAME_STATE_VICTORY
    /\ \E dt \in CampaignFrameTimes, c \in VictoryCells :
          Update(dt, LeftClick(CellCentre(c)))
VictoryClickPanel ==
    /\ gameState = GAME_STATE_VICTORY
    /\ \E dt \in CampaignFrameTimes, p \in CombatPoints :
          /\ (p = PointBuildSplashOrSell /\ g_selectedTowerX # -1)
                => hist.sold < MaxSold
          /\ Update(dt, LeftClick(p))
VictoryRightClick ==
    /\ gameState = GAME_STATE_VICTORY /\ ~NothingSelected
    /\ \E dt \in CampaignFrameTimes : Update(dt, Key("right"))

\* With a kind chosen the player first clicks where no tower can stand: the
\* start of the path, and the first site once it is built.
CampaignMisplace ==
    /\ Shopping /\ CanBuild /\ g_selectedBuildType = TOWER_GUN
    /\ \E dt \in CampaignFrameTimes, c \in {CampaignStart, CampaignSites[1]} :
          /\ ~walls[c] \/ towers[c].active
          /\ Update(dt, LeftClick(CellCentre(c)))

NextCampaign ==
    \/ CampaignMisplace
    \/ CampaignSpeed
    \/ CampaignChoose
    \/ CampaignBuild
    \/ CampaignSelect
    \/ CampaignUpgrade
    \/ CampaignStartWave
    \/ CampaignWatch
    \/ CampaignTryUpgrade
    \/ CampaignTryChoose
    \/ VictoryClickCell
    \/ VictoryClickPanel
    \/ VictoryRightClick
    \/ Draw

SpecCampaign == InitCampaign /\ [][NextCampaign]_vars

---------------------------------------------------------------------------
(* Specification of a skirmish: the frame loop under a player who shops
   with every kind of tower before the first wave and then lets two waves
   run on the map of Spec *)

\* the frame time of the skirmish: fifteen frames a second
CombatFrameTimes == {Second \div 15}

\* the cells the player clicks: two wall cells beside the corridor and one
\* cell of the corridor
CombatCells == {<<1, 1>>, <<2, 1>>, <<1, 0>>}

BeforeFirstWave ==
    gameState = GAME_STATE_WAVE_TRANSITION /\ hist.started = 0

CombatClickCell ==
    /\ BeforeFirstWave
    /\ \E dt \in CombatFrameTimes, c \in CombatCells :
          Update(dt, LeftClick(CellCentre(c)))
CombatClickPanel ==
    /\ BeforeFirstWave
    /\ \E dt \in CombatFrameTimes, p \in CombatPoints :
          /\ (p = PointBuildSplashOrSell /\ g_selectedTowerX # -1)
                => hist.sold < MaxSold
          /\ Update(dt, LeftClick(p))
CombatRightClick ==
    /\ BeforeFirstWave /\ ~NothingSelected
    /\ \E dt \in CombatFrameTimes : Update(dt, Key("right"))
\* the player of this run starts at most this many waves, so that a run
\* lost in the second wave can be restarted and played again
CombatWaves == 3

CombatStartWave ==
    /\ gameState = GAME_STATE_WAVE_TRANSITION
    /\ hist.started < CombatWaves /\ NothingSelected
    /\ \E dt \in CombatFrameTimes : Update(dt, LeftClick(PointStart))
CombatWatch ==
    /\ gameState = GAME_STATE_PLAYING
    /\ \E dt \in CombatFrameTimes : Update(dt, NoInput)
CombatRestart ==
    /\ gameState \in {GAME_STATE_GAME_OVER, GAME_STATE_VICTORY}
    /\ \E dt \in CombatFrameTimes : Update(dt, Key("keyR"))

NextCombat ==
    \/ CombatClickCell
    \/ CombatClickPanel
    \/ CombatRightClick
    \/ CombatStartWave
    \/ CombatWatch
    \/ CombatRestart
    \/ Draw

SpecCombat == Init /\ [][NextCombat]_vars

---------------------------------------------------------------------------
(* Specification of a run with long frames: on a map whose top row is a
   corridor from side to side the player builds at most one slow tower
   beside the corridor, then lets the waves run; while the first members
   of the first wave are due, and again late in the spawning of the second
   wave, a frame may take a whole second *)

\* the map: the top row open, every other cell a wall
LagOpen == {<<x, 0>> : x \in 0 .. GRID_SIZE - 1}
LagWalls == [c \in Cells |-> c \notin LagOpen]
InitLag == InitOn(LagWalls, <<0, 0>>, <<GRID_SIZE - 1, 0>>)

\* the frame times of this run: ten frames a second, and a frame of 1 s
LagFrameTimes == {Second \div 10}
LongFrameTimes == {Second}

\* the wall cell the slow tower is built on
LagSite == <<1, 1>>

\* a long frame happens only up to this many spawned members of wave 1
LagSpawns == 3

\* and in wave 2 while the members spawned are this many or one more
LagLateSpawns == 10

LagChooseSlow ==
    /\ BeforeFirstWave /\ NothingSelected /\ ~towers[LagSite].active
    /\ \E dt \in LagFrameTimes : Update(dt, LeftClick(PointBuildSlowOrUpgrade))
LagPlaceSlow ==
    /\ BeforeFirstWave /\ g_selectedBuildType = TOWER_SLOW
    /\ \E dt \in LagFrameTimes : Update(dt, LeftClick(CellCentre(LagSite)))
LagStartWave ==
    /\ gameState = GAME_STATE_WAVE_TRANSITION
    /\ hist.started < MaxWave /\ g_selectedBuildType = -1
    /\ \E dt \in LagFrameTimes : Update(dt, LeftClick(PointStart))
LagWatch ==
    /\ gameState = GAME_STATE_PLAYING
    /\ \E dt \in LagFrameTimes : Update(dt, NoInput)
LagLongFrame ==
    /\ gameState = GAME_STATE_PLAYING
    /\ currentWaveNumber = 1 /\ activeWave.enemiesSpawned < LagSpawns
    /\ \E dt \in LongFrameTimes : Update(dt, NoInput)

LagLateFrame ==
    /\ gameState = GAME_STATE_PLAYING
    /\ currentWaveNumber = 2
    /\ activeWave.enemiesSpawned >= LagLateSpawns
    /\ activeWave.enemiesSpawned < LagLateSpawns + 2
    /\ \E dt \in LongFrameTimes : Update(dt, NoInput)

NextLag ==
    \/ LagChooseSlow
    \/ LagPlaceSlow
    \/ LagStartWave
    \/ LagWatch
    \/ LagLongFrame
    \/ LagLateFrame
    \/ Draw

SpecLag == InitLag /\ [][NextLag]_vars

\* the run of SpecLag in which the main loop keeps taking frames: while
\* the window is open it calls UpdateGame and then the drawing code, again
\* and again, so that the tick of a running wave and the drawing that
\* follows a tick are never put off for ever; the player's clicks are under
\* no such obligation
TickDue == pc = "update" /\ gameState = GAME_STATE_PLAYING /\ pc' = "draw"
DrawDue == pc = "draw" /\ pc' = "update"
SpecLagLoop == SpecLag /\ WF_pc(TickDue) /\ WF_pc(DrawDue)


---------------------------------------------------------------------------
(* Specification of a run with a splash tower: the run of SpecLag with a
   splash tower beside the corridor in place of the slow tower.  After a
   long frame the enemies of the wave stand close enough for one splash to
   hit two of them *)

\* the wall cells the splash tower may be built on, and the cell of the gun
\* tower the rest of the starting money pays for
SplashSites == {<<3, 1>>, <<5, 1>>}
SplashGunSite == <<4, 1>>

\* the long frames of this run occur while the first wave has spawned
\* fewer than this many enemies
SplashSpawns == 4

SplashBuilt == \E c \in SplashSites : towers[c].active

SplashChooseSplash ==
    /\ BeforeFirstWave /\ NothingSelected /\ ~SplashBuilt
    /\ \E dt \in LagFrameTimes : Update(dt, LeftClick(PointBuildSplashOrSell))
SplashPlaceSplash ==
    /\ BeforeFirstWave /\ g_selectedBuildType = TOWER_SPLASH
    /\ \E dt \in LagFrameTimes, c \in SplashSites :
          Update(dt, LeftClick(CellCentre(c)))
SplashChooseGun ==
    /\ BeforeFirstWave /\ NothingSelected
    /\ SplashBuilt /\ ~towers[SplashGunSite].active
    /\ \E dt \in LagFrameTimes : Update(dt, LeftClick(PointBuildGun))
SplashPlaceGun ==
    /\ BeforeFirstWave /\ g_selectedBuildType = TOWER_GUN
    /\ \E dt \in LagFrameTimes : Update(dt, LeftClick(CellCentre(SplashGunSite)))
SplashStartWave ==
    /\ gameState = GAME_STATE_WAVE_TRANSITION
    /\ hist.started < MaxWave /\ g_selectedBuildType = -1 /\ SplashBuilt
    /\ \E dt \in LagFrameTimes : Update(dt, LeftClick(PointStart))
SplashLongFrame ==
    /\ gameState = GAME_STATE_PLAYING
    /\ currentWaveNumber = 1 /\ activeWave.enemiesSpawned < SplashSpawns
    /\ \E dt \in LongFrameTimes : Update(dt, NoInput)

NextSplash ==
    \/ SplashChooseSplash
    \/ SplashPlaceSplash
    \/ SplashChooseGun
    \/ SplashPlaceGun
    \/ SplashStartWave
    \/ LagWatch
    \/ SplashLongFrame
    \/ Draw

SpecSplash == InitLag /\ [][NextSplash]_vars


---------------------------------------------------------------------------
(* Specification of the router: FindPathBFS applied to a drawn map *)

\* the maps: every choice of open cells within a block of three by three
\* cells, and the straight corridor along the top row
RouteBlock == (0 .. 2) \X (0 .. 2)
Corridor == {<<x, 0>> : x \in 0 .. GRID_SIZE - 1}
RouteOpenSets == (SUBSET RouteBlock) \cup {Corridor}
RouteStarts == {<<0, 0>>, <<1, 1>>}
RouteEnds == RouteBlock \cup {<<GRID_SIZE - 1, 0>>}

\* path and pathLength before the call: zero as at program start, or the
\* content a previous route would have left
MarkedPath == [ZeroPath EXCEPT ![0] = <<2, 2>>, ![1] = <<2, 1>>]
RoutePriors == {[path |-> ZeroPath, pathLength |-> 0],
                [path |-> MarkedPath, pathLength |-> 2]}

InitRoute ==
    /\ mapFile = ClosedFile
    /\ \E open \in RouteOpenSets : walls = [c \in Cells |-> c \notin open]
    /\ startPos \in RouteStarts
    /\ endPos \in RouteEnds
    /\ \E prior \in RoutePriors : path = prior.path /\ pathLength = prior.pathLength
    /\ routeFound = "none"
    /\ towers = ZeroGame.towers
    /\ activeWave = ZeroGame.activeWave
    /\ projectiles = ZeroGame.projectiles
    /\ gameState = ZeroGame.gameState
    /\ playerHealth = ZeroGame.playerHealth
    /\ playerMoney = ZeroGame.playerMoney
    /\ currentWaveNumber = ZeroGame.currentWaveNumber
    /\ gameSpeed = ZeroGame.gameSpeed
    /\ g_isPaused = ZeroGame.g_isPaused
    /\ g_selectedTowerX = ZeroGame.g_selectedTowerX
    /\ g_selectedTowerY = ZeroGame.g_selectedTowerY
    /\ g_selectedBuildType = ZeroGame.g_selectedBuildType
    /\ hist = ZeroGame.hist
    /\ pc = "route"
    /\ input = NoInput
    /\ frameDt = 0

\* main: FindPathBFS(startPos, endPos)
FindRoute ==
    /\ pc = "route"
    /\ LET r == FindPathBFS(walls, startPos, endPos, path, pathLength)
       IN  /\ routeFound' = IF r.found THEN "true" ELSE "false"
           /\ path' = r.path
           /\ pathLength' = r.pathLength
    /\ pc' = "done"
    /\ UNCHANGED <<mapFile, walls, startPos, endPos, input, frameDt>>
    /\ UNCHANGED gameVars

NextRoute == FindRoute

SpecRoute == InitRoute /\ [][NextRoute]_vars

---------------------------------------------------------------------------
(* Specification of the startup: main from the opening of map.txt to the
   first frames *)

Ones(n) == [i \in 1 .. n |-> "1"]
NewLine == <<"\n">>
WallRow == Ones(GRID_SIZE) \o NewLine
RECURSIVE WallRows(_)
WallRows(n) == IF n = 0 THEN <<>> ELSE WallRow \o WallRows(n - 1)

\* the first row of the file: the corridor of the game from s to f; the
\* same with a second s, with a second f, without s, without f, with a
\* wall in the corridor, with nine cells, with eight cells, with nine cells
\* and a carriage return, and with ten cells and a carriage return
TopRows ==
    {<<"s", "0", "0", "f">> \o Ones(6) \o NewLine,
     <<"s", "0", "s", "f">> \o Ones(6) \o NewLine,
     <<"s", "0", "f", "f">> \o Ones(6) \o NewLine,
     <<"0", "0", "0", "f">> \o Ones(6) \o NewLine,
     <<"s", "0", "0", "0">> \o Ones(6) \o NewLine,
     <<"s", "1", "0", "f">> \o Ones(6) \o NewLine,
     <<"s", "0", "0", "f">> \o Ones(5) \o NewLine,
     <<"s", "0", "0", "f">> \o Ones(4) \o NewLine,
     <<"s", "0", "0", "f">> \o Ones(5) \o <<"\r">> \o NewLine,
     <<"s", "0", "0", "f">> \o Ones(6) \o <<"\r">> \o NewLine}
\* the second row: a row of walls, an open stretch below the corridor, a
\* row of nine walls, a row with an s, a row with an f
SecondRows ==
    {WallRow,
     <<"0", "0", "0", "0">> \o Ones(6) \o NewLine,
     Ones(9) \o NewLine,
     <<"s">> \o Ones(9) \o NewLine,
     <<"1", "1", "1", "f">> \o Ones(6) \o NewLine}
\* the other rows: eight rows of walls, seven, eight with no newline after
\* the last, and eight with the last of nine walls and no newline
LastRows ==
    {WallRows(8),
     WallRows(7),
     WallRows(7) \o Ones(GRID_SIZE),
     WallRows(7) \o Ones(9)}
MapTexts ==
    {top \o second \o last :
        top \in TopRows, second \in SecondRows, last \in LastRows}

\* main's locals startPos and endPos hold anything before LoadMap
UnsetCells == {<<0, 0>>, <<-1, -1>>}

InitLoad ==
    /\ \/ \E text \in MapTexts :
             mapFile = [exists |-> TRUE, text |-> text, pos |-> 0, y |-> 0]
       \/ mapFile = [exists |-> FALSE, text |-> <<>>, pos |-> 0, y |-> 0]
    /\ walls = [c \in Cells |-> FALSE]
    /\ path = ZeroPath
    /\ pathLength = 0
    /\ \E c \in UnsetCells : startPos = c /\ endPos = c
    /\ routeFound = "none"
    /\ towers = ZeroGame.towers
    /\ activeWave = ZeroGame.activeWave
    /\ projectiles = ZeroGame.projectiles
    /\ gameState = ZeroGame.gameState
    /\ playerHealth = ZeroGame.playerHealth
    /\ playerMoney = ZeroGame.playerMoney
    /\ currentWaveNumber = ZeroGame.currentWaveNumber
    /\ gameSpeed = ZeroGame.gameSpeed
    /\ g_isPaused = ZeroGame.g_isPaused
    /\ g_selectedTowerX = ZeroGame.g_selectedTowerX
    /\ g_selectedTowerY = ZeroGame.g_selectedTowerY
    /\ g_selectedBuildType = ZeroGame.g_selectedBuildType
    /\ hist = ZeroGame.hist
    /\ pc = "open"
    /\ input = NoInput
    /\ frameDt = 0

\* LoadMap: fopen, and the markers set to -1
OpenMap ==
    /\ pc = "open"
    /\ IF mapFile.exists
       THEN /\ startPos' = <<-1, -1>> /\ endPos' = <<-1, -1>>
            /\ pc' = "load"
       ELSE /\ pc' = "exit"
            /\ UNCHANGED <<startPos, endPos>>
    /\ UNCHANGED <<mapFile, walls, path, pathLength, routeFound, input, frameDt>>
    /\ UNCHANGED gameVars

\* LoadMap: one turn of the loop over y
ReadRow ==
    /\ pc = "load" /\ mapFile.y < GRID_SIZE
    /\ \E line \in {Fgets(mapFile)} :
       \E st \in {LoadRow([ok |-> TRUE, walls |-> walls,
                            startPos |-> startPos, endPos |-> endPos],
                           line, mapFile.y)} :
          /\ walls' = st.walls
          /\ startPos' = st.startPos
          /\ endPos' = st.endPos
          /\ mapFile' = [mapFile EXCEPT !.pos = @ + Len(line), !.y = @ + 1]
          /\ pc' = IF st.ok THEN "load" ELSE "exit"
    /\ UNCHANGED <<path, pathLength, routeFound, input, frameDt>>
    /\ UNCHANGED gameVars

\* LoadMap: fclose and the test of the markers after the loop
CloseMap ==
    /\ pc = "load" /\ mapFile.y = GRID_SIZE
    /\ pc' = IF startPos[1] = -1 \/ endPos[1] = -1 THEN "exit" ELSE "route"
    /\ UNCHANGED routeVars
    /\ UNCHANGED <<input, frameDt>>
    /\ UNCHANGED gameVars

\* main after FindPathBFS: return 1, or InitializeGame
StartRun ==
    /\ pc = "done"
    /\ IF routeFound = "true"
       THEN Apply(InitializeGame(Game)) /\ pc' = "update"
       ELSE pc' = "exit" /\ UNCHANGED gameVars
    /\ UNCHANGED routeVars
    /\ UNCHANGED <<input, frameDt>>

\* the frames of the run that has started: the player watches
LoadFrameTimes == {Second \div 60}
WatchFrame == \E dt \in LoadFrameTimes : Update(dt, NoInput)

NextLoad ==
    \/ OpenMap
    \/ ReadRow
    \/ CloseMap
    \/ FindRoute
    \/ StartRun
    \/ WatchFrame
    \/ Draw

SpecLoad == InitLoad /\ [][NextLoad]_vars


---------------------------------------------------------------------------
(* Properties of the router, checked under SpecRoute *)

Adjacent(a, b) == Abs(a[1] - b[1]) + Abs(a[2] - b[2]) = 1

\* The 4-neighbour distance from the cells of frontier (at distance d from
\* the start) to cell end, by whole layers; -1 when end cannot be reached.
RECURSIVE LayerDistance(_, _, _, _, _)
LayerDistance(w, frontier, seen, end, d) ==
    IF end \in frontier THEN d
    ELSE IF frontier = {} THEN -1
    ELSE LET layer == {c \in Cells : /\ ~w[c] /\ c \notin seen
                                     /\ \E f \in frontier : Adjacent(c, f)}
         IN  LayerDistance(w, layer, seen \cup layer, end, d + 1)

ShortestDistance(w, start, end) ==
    IF w[start] \/ w[end] THEN -1
    ELSE LayerDistance(w, {start}, {start}, end, 0)

\* C2: when start and finish are non-wall cells joined by a 4-connected
\* walkable route, FindPathBFS returns true and path[0 .. pathLength - 1]
\* runs from start to finish over non-wall cells, consecutive cells
\* 4-adjacent, with pathLength - 1 the shortest 4-neighbour distance.
C2_RouteIsShortest ==
    (pc = "done" /\ ShortestDistance(walls, startPos, endPos) >= 0)
    => /\ routeFound = "true"
       /\ pathLength >= 1
       /\ path[0] = startPos
       /\ path[pathLength - 1] = endPos
       /\ \A i \in 0 .. pathLength - 2 : Adjacent(path[i], path[i + 1])
       /\ \A i \in 0 .. pathLength - 1 : path[i] \in Cells /\ ~walls[path[i]]
       /\ pathLength - 1 = ShortestDistance(walls, startPos, endPos)

\* a route was found that has to go around walls: it is longer than the
\* distance between start and finish on an empty grid
C2_Witness ==
    /\ pc = "done" /\ routeFound = "true"
    /\ pathLength - 1 > Abs(startPos[1] - endPos[1]) + Abs(startPos[2] - endPos[2])

\* C3: when the start or the finish is a wall cell, or no 4-connected
\* walkable route joins them, FindPathBFS returns false and leaves path and
\* pathLength as they were before the call.
C3_NoRouteNoPathState ==
    [][(pc = "route" /\ ShortestDistance(walls, startPos, endPos) = -1)
          => /\ routeFound' = "false"
             /\ path' = path
             /\ pathLength' = pathLength]_vars

\* the search has failed between two non-wall cells and the path written
\* before the call is still there
C3_Witness ==
    /\ pc = "done" /\ routeFound = "false"
    /\ ~walls[startPos] /\ ~walls[endPos]
    /\ pathLength = 2 /\ path = MarkedPath

---------------------------------------------------------------------------
(* Properties of the phase machine, checked under Spec *)

Ended == {GAME_STATE_GAME_OVER, GAME_STATE_VICTORY}

NoneActive(wave) == \A i \in 0 .. wave.enemyCount - 1 : ~wave.enemies[i].active

ClickOnStart(in) == in.left /\ CheckCollisionPointRec(in.mouse, StartButton)

\* what InitializeGame leaves behind, as a condition on the next state
RunStateIsInitial ==
    /\ playerHealth' = PLAYER_START_HEALTH
    /\ playerMoney' = PLAYER_START_MONEY
    /\ currentWaveNumber' = 0
    /\ gameState' = GAME_STATE_WAVE_TRANSITION
    /\ \A c \in Cells : ~towers'[c].active
    /\ gameSpeed' = 1
    /\ ~g_isPaused'
    /\ g_selectedTowerX' = -1 /\ g_selectedTowerY' = -1
    /\ g_selectedBuildType' = -1

\* C1: in every state between ticks, playerHealth = 0 implies that the phase
\* is GameOver: a Playing tick that brings playerHealth to 0 ends in GameOver,
\* and the completion check of that tick does not replace it.
C1_ZeroHealthIsGameOver == playerHealth = 0 => gameState = GAME_STATE_GAME_OVER

\* C4: a step changes the phase from Playing to WaveTransition only as a tick
\* after which every member of the wave has been spawned, no member is active
\* and currentWaveNumber is below MAX_WAVES; and a Playing tick after which
\* the fully-spawned flag is set and no member is active ends the wave.
C4_WaveEndsWhenSpawnedAndCleared ==
    [][/\ (gameState = GAME_STATE_PLAYING /\ gameState' = GAME_STATE_WAVE_TRANSITION)
          => /\ pc = "update"
             /\ activeWave'.enemiesSpawned = activeWave'.enemyCount
             /\ NoneActive(activeWave')
             /\ currentWaveNumber < MAX_WAVES
       /\ (/\ pc = "update" /\ gameState = GAME_STATE_PLAYING /\ ~g_isPaused'
           /\ activeWave'.isFinished /\ NoneActive(activeWave'))
          => gameState' = IF currentWaveNumber < MAX_WAVES
                          THEN GAME_STATE_WAVE_TRANSITION
                          ELSE GAME_STATE_VICTORY]_vars

\* a tick has just ended the first wave, with members killed and leaked
C4_Witness ==
    /\ pc = "draw" /\ frameDt > 0
    /\ gameState = GAME_STATE_WAVE_TRANSITION
    /\ currentWaveNumber = 1
    /\ activeWave.isFinished /\ activeWave.enemiesSpawned = 10
    /\ hist.leaks > 0 /\ playerMoney > PLAYER_START_MONEY - 50

\* C5: a step changes the phase to Victory only as a tick of the Playing
\* phase after which every member of the wave has been spawned and no member
\* is active, with currentWaveNumber equal to MAX_WAVES; in every state
\* 0 <= currentWaveNumber <= MAX_WAVES; and a click on the start button in
\* the Victory phase starts no wave.
C5_VictoryAfterFinalWave ==
    [][/\ (gameState # GAME_STATE_VICTORY /\ gameState' = GAME_STATE_VICTORY)
          => /\ pc = "update" /\ gameState = GAME_STATE_PLAYING
             /\ activeWave'.enemiesSpawned = activeWave'.enemyCount
             /\ NoneActive(activeWave')
             /\ currentWaveNumber = MAX_WAVES
       /\ currentWaveNumber' >= 0 /\ currentWaveNumber' <= MAX_WAVES
       /\ (pc = "draw" /\ ClickOnStart(input) /\ gameState = GAME_STATE_VICTORY)
          => (currentWaveNumber' = currentWaveNumber /\ activeWave' = activeWave
              /\ gameState' = GAME_STATE_VICTORY)]_vars

\* the player has clicked the start button after winning the final wave
C5_Witness ==
    /\ pc = "draw" /\ ClickOnStart(input)
    /\ gameState = GAME_STATE_VICTORY
    /\ currentWaveNumber = MAX_WAVES /\ hist.started = MAX_WAVES
    /\ activeWave.isFinished /\ NoneActive(activeWave)

\* C6: a click on the start button takes effect only in the WaveTransition
\* phase; there it increments currentWaveNumber by exactly 1, composes the
\* wave of the new number with the spawn sequencer reset (enemiesSpawned 0,
\* spawnTimer 0, not finished, every member inactive with speed multiplier 1
\* and slow timer 0) and sets the phase to Playing; and nothing else
\* increments currentWaveNumber.
C6_StartNextWave ==
    [][/\ (pc = "draw" /\ ClickOnStart(input) /\ gameState = GAME_STATE_WAVE_TRANSITION)
          => /\ currentWaveNumber' = currentWaveNumber + 1
             /\ gameState' = GAME_STATE_PLAYING
             /\ activeWave'.enemyCount
                  = SumCounts(EnemyTypeCounts(currentWaveNumber + 1), 0)
             /\ activeWave'.enemiesSpawned = 0
             /\ activeWave'.spawnTimer = 0
             /\ ~activeWave'.isFinished
             /\ \A i \in 0 .. activeWave'.enemyCount - 1 :
                   /\ ~activeWave'.enemies[i].active
                   /\ activeWave'.enemies[i].speedMultiplier = 10
                   /\ activeWave'.enemies[i].slowTimer = 0
                   /\ activeWave'.enemies[i].type
                        = TypeAtIndex(EnemyTypeCounts(currentWaveNumber + 1), i, 0)
       /\ (pc = "draw" /\ ClickOnStart(input) /\ gameState # GAME_STATE_WAVE_TRANSITION)
          => /\ currentWaveNumber' = currentWaveNumber
             /\ gameState' = gameState
             /\ activeWave' = activeWave
       /\ (currentWaveNumber' > currentWaveNumber)
          => (pc = "draw" /\ ClickOnStart(input)
              /\ gameState = GAME_STATE_WAVE_TRANSITION)]_vars

\* the second wave has just been started, after a first wave that spawned
\* all its members
C6_Witness ==
    /\ pc = "update" /\ gameState = GAME_STATE_PLAYING
    /\ currentWaveNumber = 2 /\ activeWave.enemyCount = 15
    /\ activeWave.enemiesSpawned = 0 /\ ~activeWave.isFinished
    /\ activeWave.enemies[0].health <= 0

\* C7: the restart key takes effect only in GameOver or Victory: there (the
\* game not paused) the run state after the tick is the initial one while
\* walls, path and pathLength are unchanged, the phase leaves GameOver or
\* Victory in no other way, and in the other phases a tick with the restart
\* key pressed does what the tick does without it.
C7_Restart ==
    [][/\ (pc = "update" /\ input'.keyR /\ gameState \in Ended /\ ~g_isPaused)
          => (RunStateIsInitial /\ UNCHANGED routeVars)
       /\ (gameState \in Ended /\ gameState' # gameState)
          => (pc = "update" /\ input'.keyR /\ RunStateIsInitial
              /\ UNCHANGED routeVars)
       /\ (pc = "update" /\ input'.keyR /\ gameState \notin Ended)
          => Apply(UpdateGame(Game, frameDt', NoInput))]_vars

\* a restart has just been done in a game that was over after two waves,
\* and a tower and a member of the wave keep their timers
C7_Witness ==
    /\ pc = "draw" /\ input.keyR
    /\ gameState = GAME_STATE_WAVE_TRANSITION /\ currentWaveNumber = 0
    /\ hist.started = 2
    /\ \E c \in Cells : towers[c].fireCooldown > 0
    /\ \E i \in 0 .. 14 : activeWave.enemies[i].moveTimer > Second \div 60

\* C8: in a run that starts at playerHealth = PLAYER_START_HEALTH the phase
\* becomes GameOver with the 20th leak and not before; and while the phase
\* stays GameOver a tick changes neither playerHealth, playerMoney,
\* currentWaveNumber, the wave and its members, the cooldown and target of
\* any tower, nor the phase.
C8_GameOverAtTwentiethLeak ==
    [][/\ (gameState # GAME_STATE_GAME_OVER /\ gameState' = GAME_STATE_GAME_OVER)
          => (hist.leaks < PLAYER_START_HEALTH /\ hist.leaks' = PLAYER_START_HEALTH)
       /\ (hist.leaks < PLAYER_START_HEALTH /\ hist.leaks' = PLAYER_START_HEALTH)
          => gameState' = GAME_STATE_GAME_OVER
       /\ (pc = "update" /\ gameState = GAME_STATE_GAME_OVER
           /\ gameState' = GAME_STATE_GAME_OVER)
          => /\ playerHealth' = playerHealth
             /\ playerMoney' = playerMoney
             /\ currentWaveNumber' = currentWaveNumber
             /\ activeWave' = activeWave
             /\ \A c \in Cells :
                   /\ towers'[c].fireCooldown = towers[c].fireCooldown
                   /\ towers'[c].targetIndex = towers[c].targetIndex]_vars

\* C9: a tick of a paused game advances no simulation state: the wave with
\* its spawn timer, spawn counter and members, the cooldown and target of
\* every tower, playerHealth and the phase are unchanged.
C9_PausedTickAdvancesNothing ==
    [][(pc = "update" /\ g_isPaused')
          => /\ activeWave' = activeWave
             /\ playerHealth' = playerHealth
             /\ gameState' = gameState
             /\ \A c \in Cells :
                   (towers[c].active /\ towers'[c].active)
                   => /\ towers'[c].fireCooldown = towers[c].fireCooldown
                      /\ towers'[c].targetIndex = towers[c].targetIndex]_vars

\* a long frame has just passed in a paused wave with a member on the path
\* and a tower holding a target
C9_Witness ==
    /\ pc = "draw" /\ g_isPaused /\ frameDt \in StallTimes
    /\ gameState = GAME_STATE_PLAYING
    /\ \E i \in 0 .. activeWave.enemyCount - 1 : activeWave.enemies[i].active
    /\ \E c \in Cells : towers[c].active /\ towers[c].targetIndex # -1
    /\ activeWave.spawnTimer > 0

\* C10: while the pause flag is set the pause key clears it, and the restart
\* key pressed in GameOver or Victory reinitialises the run as it does when
\* the game is not paused.
C10_PausedInputsHonoured ==
    [][/\ (pc = "update" /\ g_isPaused /\ input'.keyP) => ~g_isPaused'
       /\ (pc = "update" /\ g_isPaused /\ input'.keyR /\ gameState \in Ended)
          => RunStateIsInitial]_vars

---------------------------------------------------------------------------
(* Properties of the motion model and of combat *)

\* C11: a tick does not lower the progress (path index plus interpolation
\* fraction) of a member of the wave that is active before and after it.
C11_ProgressNeverDecreases ==
    [][pc = "update"
          => \A i \in 0 .. activeWave.enemyCount - 1 :
                (activeWave.enemies[i].active /\ activeWave'.enemies[i].active)
                => ~ProgressGreater(activeWave.enemies[i].progress,
                                    activeWave'.enemies[i].progress)]_vars

---------------------------------------------------------------------------
(* Properties of the shop: build, upgrade and sell *)

\* the cell under the mouse, as HandleInput computes it
MouseCell(in) == <<in.mouse[1] \div cellWidth, in.mouse[2] \div cellHeight>>

\* a left click on the game area with a build type selected
BuildRequest(in) ==
    /\ in.left /\ ~in.right
    /\ in.mouse[1] < GAME_AREA_WIDTH /\ in.mouse[1] > 0
    /\ g_selectedBuildType # -1

\* the tick does nothing but handle input: no wave is played, or the game
\* is paused throughout
QuietTick == pc = "update" /\ (gameState # GAME_STATE_PLAYING \/ (g_isPaused /\ g_isPaused'))

\* C12: a build request for the selected kind at a cell succeeds exactly
\* when the cell is a wall, holds no active tower and playerMoney is at
\* least the level-0 cost of the kind; then playerMoney decreases by that
\* cost, the cell holds an active tower of that kind at level 0 with
\* cooldown 0 and no target, and no other tower changes; otherwise money
\* and towers are unchanged.  A build box selects its kind only when
\* playerMoney covers the cost, so a selected kind is always affordable.
C12_BuildExactlyWhenAllowed ==
    [][/\ (QuietTick /\ BuildRequest(input'))
          => LET cell == MouseCell(input')
                 kind == g_selectedBuildType
                 cost == g_towerStats[kind][0].cost
             IN  IF walls[cell] /\ ~towers[cell].active /\ playerMoney >= cost
                 THEN /\ playerMoney' = playerMoney - cost
                      /\ towers'[cell] =
                            [pos |-> cell, active |-> TRUE, type |-> kind,
                             level |-> 0, fireCooldown |-> 0, targetIndex |-> -1]
                      /\ \A c \in Cells \ {cell} : towers'[c] = towers[c]
                 ELSE playerMoney' = playerMoney /\ towers' = towers
       /\ (pc = "draw" /\ input.left /\ g_selectedTowerX = -1)
          => \A i \in 0 .. TOWER_TYPE_COUNT - 1 :
                (/\ CheckCollisionPointRec(input.mouse, BuildBox(i))
                 /\ playerMoney < g_towerStats[i][0].cost)
                => /\ g_selectedBuildType' = g_selectedBuildType
                   /\ playerMoney' = playerMoney /\ towers' = towers
       /\ g_selectedBuildType' # -1
          => playerMoney' >= g_towerStats[g_selectedBuildType'][0].cost]_vars

\* a splash tower has just been built beside a gun tower with the last of
\* the money
C12_Witness ==
    /\ pc = "draw" /\ input.left /\ MouseCell(input) = <<2, 1>>
    /\ towers[<<2, 1>>].active /\ towers[<<2, 1>>].type = TOWER_SPLASH
    /\ towers[<<2, 1>>].level = 0
    /\ towers[<<1, 1>>].active /\ towers[<<1, 1>>].type = TOWER_GUN
    /\ g_selectedBuildType = -1
    /\ playerMoney = 0

\* a frame is drawn in which the player clicks the box b of the panel shown
\* for the selected tower
SelectionClick(b) ==
    /\ pc = "draw" /\ input.left /\ g_selectedTowerX # -1
    /\ CheckCollisionPointRec(input.mouse, b)
SelectedCell == <<g_selectedTowerX, g_selectedTowerY>>

\* C13: a click on the upgrade box of the selected tower upgrades exactly
\* when the tower's level is below MAX_TOWER_LEVEL - 1 and the money covers
\* the cost of the next level; the upgrade takes exactly that cost and
\* raises the level by one, and leaves the tower's kind, cell, cooldown and
\* target, and every other tower, as they were; a refused click changes
\* neither money nor towers; without a selection the operation does
\* nothing; and no tower's level ever leaves 0 .. MAX_TOWER_LEVEL - 1.
C13_UpgradeExactlyWhenAllowed ==
    [][ /\ SelectionClick(UpgradeBox) =>
             LET c == SelectedCell
                 tower == towers[c]
                 refused == playerMoney' = playerMoney /\ towers' = towers
             IN  IF tower.level < MAX_TOWER_LEVEL - 1
                 THEN LET cost == g_towerStats[tower.type][tower.level + 1].cost
                      IN  IF playerMoney >= cost
                          THEN /\ playerMoney' = playerMoney - cost
                               /\ towers' = [towers EXCEPT ![c].level = tower.level + 1]
                          ELSE refused
                 ELSE refused
        /\ g_selectedTowerX = -1 => UpgradeSelectedTower(Game) = Game
        /\ \A c \in DOMAIN towers : towers'[c].level \in 0 .. MAX_TOWER_LEVEL - 1
      ]_vars

\* the player clicks the upgrade box of a tower that was upgraded to the
\* last level
C13_Witness ==
    /\ SelectionClick(UpgradeBox)
    /\ towers[SelectedCell].active
    /\ towers[SelectedCell].level = MAX_TOWER_LEVEL - 1

\* the costs paid for a tower of kind type at level level: its build cost
\* and the cost of every level it was raised to
Paid(type, level) ==
    LET sum[l \in 0 .. level] ==
            g_towerStats[type][l].cost + (IF l = 0 THEN 0 ELSE sum[l - 1])
    IN  sum[level]

\* C14: a click on the sell box of the selected tower adds to the money the
\* whole part of seven tenths of the costs paid for the tower (its build
\* cost and the cost of every level up to its own), deactivates the tower
\* and nothing else of the towers, and clears the selection; a tower at
\* level 0 returns the whole part of seven tenths of its build cost.
C14_SellRefundsSeventyPercent ==
    [][ SelectionClick(SellBox) =>
          LET c == SelectedCell
              tower == towers[c]
          IN  /\ playerMoney' = playerMoney + (7 * Paid(tower.type, tower.level)) \div 10
              /\ tower.level = 0 =>
                    playerMoney' = playerMoney + (7 * g_towerStats[tower.type][0].cost) \div 10
              /\ towers' = [towers EXCEPT ![c].active = FALSE]
              /\ g_selectedTowerX' = -1 /\ g_selectedTowerY' = -1
      ]_vars

\* a tower of the last level was sold for an amount that is not a multiple
\* of ten, and nothing is selected
C14_Witness ==
    /\ hist.sold = 1 /\ g_selectedTowerX = -1
    /\ \E c \in DOMAIN towers :
          /\ ~towers[c].active /\ towers[c].level = MAX_TOWER_LEVEL - 1
          /\ (7 * Paid(towers[c].type, towers[c].level)) % 10 # 0

\* the run states s and t agree on the money, the towers, the enemies, the
\* player's health, the wave number and the phase
SameRun(s, t) ==
    /\ s.playerMoney = t.playerMoney /\ s.towers = t.towers
    /\ s.activeWave = t.activeWave /\ s.playerHealth = t.playerHealth
    /\ s.currentWaveNumber = t.currentWaveNumber /\ s.gameState = t.gameState
RunUnchanged ==
    /\ playerMoney' = playerMoney /\ towers' = towers
    /\ activeWave' = activeWave /\ playerHealth' = playerHealth
    /\ currentWaveNumber' = currentWaveNumber /\ gameState' = gameState
BuildAllowed(in) ==
    /\ walls[MouseCell(in)] /\ ~towers[MouseCell(in)].active
    /\ playerMoney >= g_towerStats[g_selectedBuildType][0].cost
UpgradeAllowed ==
    LET tower == towers[SelectedCell]
    IN  IF tower.level < MAX_TOWER_LEVEL - 1
        THEN playerMoney >= g_towerStats[tower.type][tower.level + 1].cost
        ELSE FALSE

\* C15: a refused action leaves the money, the towers, the enemies, the
\* player's health, the wave number and the phase as they were: a build
\* click on a cell that is no wall or holds a tower, in the input handler
\* of any tick and over the whole tick when the simulation does not run; a
\* build with less money than the kind costs, both at the build box, which
\* then does not choose the kind, and in the input handler applied to the
\* state with the kind chosen and one coin short; an upgrade click on a
\* tower of the last level or with too little money; and the upgrade and
\* the sale with no tower selected.
C15_RefusedActionsChangeNothing ==
    [][ /\ (pc = "update" /\ BuildRequest(input') /\ ~BuildAllowed(input'))
              => /\ SameRun(HandleInput(Game, input'), Game)
                 /\ QuietTick => RunUnchanged
        /\ pc = "update" =>
              \A k \in 0 .. TOWER_TYPE_COUNT - 1 :
                 LET short == [Game EXCEPT !.g_selectedBuildType = k,
                                           !.g_selectedTowerX = -1,
                                           !.g_selectedTowerY = -1,
                                           !.playerMoney = g_towerStats[k][0].cost - 1]
                 IN  \A c \in CombatCells :
                        SameRun(HandleInput(short, LeftClick(CellCentre(c))), short)
        /\ (pc = "draw" /\ input.left /\ g_selectedTowerX = -1) =>
              \A k \in 0 .. TOWER_TYPE_COUNT - 1 :
                 (/\ CheckCollisionPointRec(input.mouse, BuildBox(k))
                  /\ playerMoney < g_towerStats[k][0].cost)
                 => RunUnchanged /\ g_selectedBuildType' = g_selectedBuildType
        /\ (SelectionClick(UpgradeBox) /\ ~UpgradeAllowed) => RunUnchanged
        /\ g_selectedTowerX = -1 =>
              /\ SameRun(UpgradeSelectedTower(Game), Game)
              /\ SameRun(SellSelectedTower(Game), Game)
      ]_vars

\* with a kind chosen the player has clicked the built first site, and the
\* kind is still chosen
C15_Witness ==
    /\ pc = "draw" /\ input.left /\ MouseCell(input) = CampaignSites[1]
    /\ towers[CampaignSites[1]].active
    /\ g_selectedBuildType = TOWER_GUN

\* C16: in every state every active tower stands on a wall cell, its stored
\* position is the cell that holds it, and no two active towers have the
\* same position.
C16_TowersOnWallsOnePerCell ==
    /\ \A c \in DOMAIN towers :
          towers[c].active => walls[c] /\ towers[c].pos = c
    /\ LET built == {c \in DOMAIN towers : towers[c].active}
       IN  \A c, d \in built : towers[c].pos = towers[d].pos => c = d

\* a gun tower and a slow tower stand side by side after a slow tower was sold
C16_Witness ==
    /\ towers[<<1, 1>>].active /\ towers[<<2, 1>>].active
    /\ towers[<<1, 1>>].type = TOWER_GUN /\ towers[<<2, 1>>].type = TOWER_SLOW
    /\ hist.sold = 1 /\ playerMoney = 22

----------------------------------------------------------------------------
(* Properties of the enemies' health *)

\* C17: in every state every spawned enemy of the active wave has a health
\* from 0 to its maxHealth, also after the shot that killed it.
C17_HealthWithinBounds ==
    \A i \in 0 .. activeWave.enemiesSpawned - 1 :
       /\ activeWave.enemies[i].health >= 0
       /\ activeWave.enemies[i].health <= activeWave.enemies[i].maxHealth

\* no active enemy of the wave has a health of 0 or less
NoneDeadActive(wave) ==
    \A i \in 0 .. wave.enemyCount - 1 :
       wave.enemies[i].active => wave.enemies[i].health > 0
\* the enemies inactive in wave before are inactive in wave after, with the
\* same health
DeadUntouched(before, after) ==
    \A i \in 0 .. before.enemyCount - 1 :
       ~before.enemies[i].active =>
          /\ ~after.enemies[i].active
          /\ after.enemies[i].health = before.enemies[i].health

\* after the step of each tower of the scan, from the j-th on, no active
\* enemy has a health of 0 or less and no inactive enemy was damaged
RECURSIVE EveryTowerSweeps(_, _, _, _)
EveryTowerSweeps(s, scan, j, dt) ==
    IF j > Len(scan) THEN TRUE
    ELSE \A r \in {UpdateTower(s, ScanCell(scan[j]), dt)} :
            /\ NoneDeadActive(r.activeWave)
            /\ DeadUntouched(s.activeWave, r.activeWave)
            /\ EveryTowerSweeps(r, scan, j + 1, dt)

\* C18: an enemy whose health a shot brings to 0 or less is deactivated in
\* the step of the tower that fired, so that after the step of each tower
\* of the tick no active enemy has a health of 0 or less and no tower's step
\* changes the health of an inactive enemy; at the end of every tick every
\* active enemy has a health above 0, and an enemy that is inactive after
\* its spawn stays inactive with the same health while the wave lasts.
C18_DeadEnemiesLeaveAtOnce ==
    [][ pc = "update" =>
          /\ LET s1 == HandleInput(Game, input')
                 scaled == frameDt' * s1.gameSpeed
             IN  (~s1.g_isPaused /\ s1.gameState = GAME_STATE_PLAYING)
                 => \A moved \in {UpdateEnemies(
                           [s1 EXCEPT !.activeWave = UpdateWave(@, scaled)], scaled)} :
                       EveryTowerSweeps(moved, ActiveScan(moved), 1, scaled)
          /\ NoneDeadActive(activeWave')
          /\ \A i \in 0 .. activeWave.enemiesSpawned - 1 :
                (i < activeWave'.enemiesSpawned /\ ~activeWave.enemies[i].active)
                => /\ ~activeWave'.enemies[i].active
                   /\ activeWave'.enemies[i].health = activeWave.enemies[i].health
      ]_vars

\* a gun tower and a splash tower stand side by side, an enemy was killed by
\* a shot that took its health below 0, and another enemy is wounded
C18_Witness ==
    /\ towers[<<1, 1>>].active /\ towers[<<2, 1>>].active
    /\ {towers[<<1, 1>>].type, towers[<<2, 1>>].type} = {TOWER_GUN, TOWER_SPLASH}
    /\ \E i, j \in 0 .. activeWave.enemiesSpawned - 1 :
          /\ ~activeWave.enemies[i].active /\ activeWave.enemies[i].health < 0
          /\ activeWave.enemies[j].active
          /\ activeWave.enemies[j].health < activeWave.enemies[j].maxHealth

----------------------------------------------------------------------------
(* Properties of the money and of the player's health *)

\* C19: in every state the money and the player's health are 0 or more.
C19_MoneyAndHealthNotNegative ==
    playerMoney >= 0 /\ playerHealth >= 0

\* the player's health is 0 after the twentieth leak, in a run in which a
\* tower was upgraded and a tower was sold
C19_Witness ==
    /\ playerHealth = 0 /\ hist.leaks = 20 /\ hist.sold = 1
    /\ \E c \in CombatCells : towers[c].active /\ towers[c].level = 1

----------------------------------------------------------------------------
(* Properties of the wave's roster *)

\* C20: a step that is not the start of a wave (the drawing of a frame in
\* which the start button is clicked between waves) changes neither the
\* wave's enemyCount nor the type or the maxHealth of any of its members.
C20_WaveRosterFixed ==
    [][ ~(pc = "draw" /\ gameState = GAME_STATE_WAVE_TRANSITION /\ ClickOnStart(input))
        => /\ activeWave'.enemyCount = activeWave.enemyCount
           /\ \A i \in 0 .. activeWave.enemyCount - 1 :
                 /\ activeWave'.enemies[i].type = activeWave.enemies[i].type
                 /\ activeWave'.enemies[i].maxHealth = activeWave.enemies[i].maxHealth
      ]_vars

\* in the second wave an enemy is wounded and slowed, and enemies of the
\* wave have died
C20_Witness ==
    /\ currentWaveNumber = 2 /\ gameState = GAME_STATE_PLAYING
    /\ activeWave.enemyCount = 15
    /\ \E i, j \in 0 .. activeWave.enemiesSpawned - 1 :
          /\ activeWave.enemies[i].active
          /\ activeWave.enemies[i].health < activeWave.enemies[i].maxHealth
          /\ activeWave.enemies[i].speedMultiplier < 10
          /\ ~activeWave.enemies[j].active
          /\ activeWave.enemies[j].maxHealth = 1200

----------------------------------------------------------------------------
(* Properties of the health over a wave *)

\* every member's health in wave after is at most its health in wave before
HealthNotRaised(before, after) ==
    \A i \in DOMAIN before.enemies :
       after.enemies[i].health <= before.enemies[i].health
SameHealth(before, after) ==
    \A i \in DOMAIN before.enemies :
       after.enemies[i].health = before.enemies[i].health

\* the step of each tower of the scan, from the j-th on, raises no enemy's
\* health, and the step of a slow tower changes none
RECURSIVE EveryTowerOnlyLowers(_, _, _, _)
EveryTowerOnlyLowers(s, scan, j, dt) ==
    IF j > Len(scan) THEN TRUE
    ELSE \A r \in {UpdateTower(s, ScanCell(scan[j]), dt)} :
            /\ HealthNotRaised(s.activeWave, r.activeWave)
            /\ s.towers[ScanCell(scan[j])].type = TOWER_SLOW
                  => SameHealth(s.activeWave, r.activeWave)
            /\ EveryTowerOnlyLowers(r, scan, j + 1, dt)

\* C21: an enemy's health rises only at its spawn, where it becomes its
\* maxHealth: over every step the health of every other member is lower or
\* the same; within a tick the motion changes no health and the step of
\* each tower raises none (the step of a slow tower changes none); and a
\* step in which the simulation does not run (a drawn frame, a paused tick,
\* a tick outside the Playing phase: builds, upgrades, sales, wave starts,
\* restarts) changes no health.
C21_HealthOnlyFalls ==
    [][ /\ \A i \in DOMAIN activeWave.enemies :
              \/ activeWave'.enemies[i].health <= activeWave.enemies[i].health
              \/ /\ pc = "update" /\ i = activeWave.enemiesSpawned
                 /\ activeWave'.enemiesSpawned = i + 1
                 /\ activeWave'.enemies[i].health <= activeWave.enemies[i].maxHealth
        /\ pc = "draw" => SameHealth(activeWave, activeWave')
        /\ pc = "update" =>
              LET s1 == HandleInput(Game, input')
                  scaled == frameDt' * s1.gameSpeed
              IN  IF ~s1.g_isPaused /\ s1.gameState = GAME_STATE_PLAYING
                  THEN \A spawned \in {[s1 EXCEPT !.activeWave = UpdateWave(@, scaled)]} :
                       \A moved \in {UpdateEnemies(spawned, scaled)} :
                          /\ SameHealth(spawned.activeWave, moved.activeWave)
                          /\ EveryTowerOnlyLowers(moved, ActiveScan(moved), 1, scaled)
                  ELSE SameHealth(activeWave, activeWave')
      ]_vars

\* in the second wave, beside a splash tower, a member that was spawned
\* anew is wounded and a member was killed
C21_Witness ==
    /\ currentWaveNumber = 2 /\ gameState = GAME_STATE_PLAYING
    /\ \E c \in CombatCells : towers[c].active /\ towers[c].type = TOWER_SPLASH
    /\ \E i \in 0 .. 9, j \in 0 .. activeWave.enemiesSpawned - 1 :
          /\ activeWave.enemies[i].active
          /\ activeWave.enemies[i].health > 0
          /\ activeWave.enemies[i].health < activeWave.enemies[i].maxHealth
          /\ ~activeWave.enemies[j].active /\ activeWave.enemies[j].health <= 0

----------------------------------------------------------------------------
(* Properties of the wave generator *)

\* the reference composition of wave w: the numbers of Normal, Scout, Tank
\* and Boss members, in this order
ReferenceCounts(w) ==
    CASE w = 1 -> <<10, 0, 0, 0>>
      [] w = 2 -> <<15, 0, 0, 0>>
      [] w = 3 -> <<10, 5, 0, 0>>
      [] w = 4 -> <<15, 8, 0, 0>>
      [] w = 5 -> <<0, 20, 0, 0>>
      [] w = 6 -> <<10, 0, 3, 0>>
      [] w = 7 -> <<15, 10, 5, 0>>
      [] w = 8 -> <<0, 0, 10, 0>>
      [] w = MAX_WAVES -> <<0, 0, 0, 1>>
      [] OTHER -> <<10 + w, 5 + 2 * (w - 5), 2 + (w - 8), 0>>
ReferenceTotal(w) ==
    ReferenceCounts(w)[1] + ReferenceCounts(w)[2]
    + ReferenceCounts(w)[3] + ReferenceCounts(w)[4]
\* the kind of the i-th member when the members are grouped by kind in the
\* order of the enum
ReferenceType(w, i) ==
    LET n == ReferenceCounts(w)
    IN  IF i < n[1] THEN ENEMY_NORMAL
        ELSE IF i < n[1] + n[2] THEN ENEMY_SCOUT
        ELSE IF i < n[1] + n[2] + n[3] THEN ENEMY_TANK
        ELSE ENEMY_BOSS
\* base health times 1 + 0.2 (w - 1), the final wave at 1.0; in tenths
ReferenceMaxHealth(w, type) ==
    IF w = MAX_WAVES THEN enemyTypes[type].maxHealth
    ELSE enemyTypes[type].maxHealth + (enemyTypes[type].maxHealth * 2 * (w - 1)) \div 10
\* wave is the reference wave of number w
IsReferenceWave(wave, w) ==
    /\ wave.enemyCount = ReferenceTotal(w)
    /\ wave.enemyCount <= MAX_ENEMIES_PER_WAVE
    /\ \A i \in 0 .. wave.enemyCount - 1 :
          /\ wave.enemies[i].type = ReferenceType(w, i)
          /\ wave.enemies[i].maxHealth = ReferenceMaxHealth(w, wave.enemies[i].type)

\* a frame is drawn in which the start button is clicked between waves
WaveStart ==
    pc = "draw" /\ gameState = GAME_STATE_WAVE_TRANSITION /\ ClickOnStart(input)

\* C22: the wave created for each number w from 1 to MAX_WAVES is the
\* reference wave of w: the listed counts for waves 1 to 8, one Boss at
\* health multiplier 1.0 for wave MAX_WAVES, else 10 + w Normal,
\* 5 + 2 (w - 5) Scout and 2 + (w - 8) Tank; members grouped by kind in the
\* order of the enum; enemyCount the sum of the counts and at most
\* MAX_ENEMIES_PER_WAVE; maxHealth the base health of the kind times
\* 1 + 0.2 (w - 1) in every wave but the last.
C22_WaveIsReferenceComposition ==
    [][ WaveStart =>
          /\ currentWaveNumber' = currentWaveNumber + 1
          /\ currentWaveNumber' \in 1 .. MAX_WAVES
          /\ IsReferenceWave(activeWave', currentWaveNumber')
      ]_vars

\* wave 9, the first wave composed by the formulas, has been created: 19
\* Normal, 13 Scout and 3 Tank members at 2.6 times their base health
C22_Witness ==
    /\ currentWaveNumber = 9 /\ activeWave.enemiesSpawned = 0
    /\ activeWave.enemyCount = 35
    /\ activeWave.enemies[18].type = ENEMY_NORMAL
    /\ activeWave.enemies[19].type = ENEMY_SCOUT
    /\ activeWave.enemies[32].type = ENEMY_TANK
    /\ activeWave.enemies[34].maxHealth = 10400

\* what a wave is made of: its enemyCount and, member by member, the type
\* and the maxHealth
Roster(wave) ==
    [enemyCount |-> wave.enemyCount,
     members |-> [i \in 0 .. wave.enemyCount - 1 |->
                    <<wave.enemies[i].type, wave.enemies[i].maxHealth>>]]

\* C23: CreateWave depends on the wave number alone: between waves, after
\* whatever waves and ticks have gone before, the wave it creates for each
\* number from 1 to MAX_WAVES has the roster of the wave it creates for
\* that number from the blank state, and creating the wave a second time
\* gives the same roster again.
C23_CreateWaveDependsOnNumberOnly ==
    gameState = GAME_STATE_WAVE_TRANSITION =>
       \A w \in 1 .. MAX_WAVES :
          \A once \in {CreateWave(Game, w)} :
             /\ Roster(once.activeWave) = Roster(CreateWave(ZeroGame, w).activeWave)
             /\ Roster(CreateWave(once, w).activeWave) = Roster(once.activeWave)

\* between waves 9 and 10: the wave in memory is wave 9 of three kinds,
\* every member of it spawned and then killed or leaked
C23_Witness ==
    /\ gameState = GAME_STATE_WAVE_TRANSITION /\ currentWaveNumber = 9
    /\ activeWave.enemyCount = 35 /\ activeWave.enemiesSpawned = 35
    /\ activeWave.enemies[34].health < activeWave.enemies[34].maxHealth

----------------------------------------------------------------------------
(* Properties of the order of a tick *)

\* a tick in which the simulation runs: after the input is handled the game
\* is not paused and the phase is Playing
RunningTick ==
    /\ pc = "update"
    /\ ~HandleInput(Game, input').g_isPaused
    /\ HandleInput(Game, input').gameState = GAME_STATE_PLAYING

\* C24: a tick of the Playing phase spawns, then moves, then fights, then
\* checks the completion.  The member spawned in a tick is moved in that
\* tick (the tick ends with its time on the way at the tick's length, or
\* with the member a cell further); the towers aim by the positions after
\* the motion (a tower's target at the end of the tick is within the
\* tower's range by the position the tick ends with); the run state at the
\* end of the tick is the one the towers leave behind, the completion check
\* deciding the phase from it, so that a tick in which the last member of a
\* fully spawned wave is killed or leaks is the tick in which the phase
\* leaves Playing.
C24_SpawnMoveFightCheck ==
    [][ RunningTick =>
          \A s1 \in {HandleInput(Game, input')} :
          \A spawned \in {[s1 EXCEPT !.activeWave =
                               UpdateWave(@, frameDt' * s1.gameSpeed)]} :
          \A moved \in {UpdateEnemies(spawned, frameDt' * s1.gameSpeed)} :
          \A fought \in {UpdateTowers(moved, frameDt' * s1.gameSpeed)} :
             /\ activeWave' = fought.activeWave /\ towers' = fought.towers
             /\ playerMoney' = fought.playerMoney
             /\ playerHealth' = fought.playerHealth
             /\ gameState' = CheckWaveCompletion(fought).gameState
             /\ spawned.activeWave.enemiesSpawned > activeWave.enemiesSpawned =>
                   LET born == moved.activeWave.enemies[activeWave.enemiesSpawned]
                   IN  born.moveTimer = frameDt' * s1.gameSpeed \/ born.pathIndex > 0
             /\ \A c \in DOMAIN towers :
                   (/\ towers'[c].active /\ towers'[c].type # TOWER_SLOW
                    /\ towers'[c].targetIndex # -1)
                   => DistanceSqrCmp(
                        ScreenPos(towers'[c].pos),
                        activeWave'.enemies[towers'[c].targetIndex].pos,
                        g_towerStats[towers'[c].type][towers'[c].level].range) <= 0
             /\ (activeWave'.isFinished /\ NoneActive(activeWave'))
                   => gameState' # GAME_STATE_PLAYING
      ]_vars

\* a member is wounded at the end of the tick that spawned and moved it
C24_Witness ==
    /\ pc = "draw" /\ gameState = GAME_STATE_PLAYING
    /\ activeWave.enemiesSpawned > 0 /\ activeWave.spawnTimer = 0
    /\ LET born == activeWave.enemies[activeWave.enemiesSpawned - 1]
       IN  /\ born.active /\ born.pathIndex = 0
           /\ born.moveTimer = frameDt * gameSpeed
           /\ born.health < born.maxHealth

----------------------------------------------------------------------------
(* Properties of the map and the route during the run *)

\* C25: no step of the run changes walls, path or pathLength, and none runs
\* the router again: whatever the player does in the frame (build, start a
\* wave, pause, toggle the speed, restart, deselect), the cell of a built
\* tower is the wall it was and the route is the one found at startup.
C25_MapAndRouteFixed ==
    [][ /\ walls' = walls /\ path' = path /\ pathLength' = pathLength
        /\ routeFound' = routeFound
        /\ \A c \in DOMAIN towers : towers'[c].active => walls'[c]
      ]_vars

\* a paused game at double speed in the first wave with a tower on a wall
\* cell beside the route, the route being the four cells found at startup
C25_Witness ==
    /\ towers[<<1, 1>>].active /\ walls[<<1, 1>>]
    /\ g_isPaused /\ gameSpeed = 2 /\ currentWaveNumber = 1
    /\ hist.leaks > 0
    /\ pathLength = 4 /\ path[0] = GameStart /\ path[3] = GameEnd

----------------------------------------------------------------------------
(* Properties of the startup, checked under SpecLoad *)

\* the lines of text, without their newlines; what follows the last newline
\* is a line if it is not empty
Lines(text) ==
    LET breaks == {i \in 1 .. Len(text) : text[i] = "\n"}
        starts == Ascending({i \in 1 .. Len(text) : i = 1 \/ i - 1 \in breaks})
        stop(a) == IF \E i \in breaks : i >= a
                   THEN (CHOOSE i \in breaks :
                            i >= a /\ \A j \in breaks : j >= a => i <= j) - 1
                   ELSE Len(text)
    IN  [k \in 1 .. Len(starts) |-> SubSeq(text, starts[k], stop(starts[k]))]

\* the cells a line gives: its characters without a closing carriage return
RowCells(line) ==
    IF line # <<>> /\ line[Len(line)] = "\r"
    THEN SubSeq(line, 1, Len(line) - 1) ELSE line

\* the rows of the map in text: the first GRID_SIZE lines
MapRows(text) ==
    LET lines == Lines(text)
    IN  [k \in 1 .. (IF Len(lines) < GRID_SIZE THEN Len(lines) ELSE GRID_SIZE) |->
            RowCells(lines[k])]
MissingRow(text) == Len(MapRows(text)) < GRID_SIZE
ShortRow(text) == \E k \in DOMAIN MapRows(text) : Len(MapRows(text)[k]) < GRID_SIZE
\* the cells of the map that hold marker m
Marked(text, m) ==
    {<<x, k>> \in (1 .. GRID_SIZE) \X DOMAIN MapRows(text) :
        x <= Len(MapRows(text)[k]) /\ MapRows(text)[k][x] = m}

\* the map file fails the loading: no file, a missing or short row, no or a
\* second start marker, no or a second finish marker
BadMap(file) ==
    \/ ~file.exists
    \/ MissingRow(file.text) \/ ShortRow(file.text)
    \/ Cardinality(Marked(file.text, "s")) # 1
    \/ Cardinality(Marked(file.text, "f")) # 1

RunInPhase == pc \in {"update", "draw"}

\* C26: a run whose map file fails the loading (a second start marker, a
\* second finish marker, no start or finish marker, a short or missing
\* row, no file) or whose map has no route never starts: a run that is in
\* a phase has a good map file and a route found, of pathLength 2 or more,
\* from the start marker to the finish marker over open cells; a run that
\* is in no phase has every variable of the game as the program starts
\* with it, InitializeGame not called and no tick executed.
C26_BadMapNeverStarts ==
    /\ RunInPhase =>
          /\ ~BadMap(mapFile)
          /\ routeFound = "true" /\ pathLength >= 2
          /\ path[0] = startPos /\ path[pathLength - 1] = endPos
          /\ \A i \in 0 .. pathLength - 1 : ~walls[path[i]]
          /\ \A i \in 0 .. pathLength - 2 : Adjacent(path[i], path[i + 1])
    /\ ~RunInPhase =>
          /\ Game = ZeroGame
          /\ frameDt = 0

----------------------------------------------------------------------------
(* Properties of the spawn sequencer, checked under SpecLag *)

\* the member of a wave that is next to spawn, as UpdateWave leaves it
Born(wave, spawned) == spawned.enemies[wave.enemiesSpawned]

\* C27: while members of the wave remain unspawned, a tick of the Playing
\* phase adds its dt to the spawn timer; when the sum reaches SPAWN_INTERVAL
\* the timer becomes exactly 0 and the member at index enemiesSpawned, and
\* no other, is activated at the first cell of the path with path index 0,
\* motion timer 0 and health = maxHealth, and enemiesSpawned grows by one;
\* otherwise no member changes.  Members are admitted in index order and at
\* most one in a tick however long it is.  Successive spawns are at least
\* SPAWN_INTERVAL of simulated time apart: the timer is 0 after a spawn,
\* grows by the dt of running ticks only, and a spawn needs it to reach
\* SPAWN_INTERVAL.
C27_SpawnsOneByOne ==
    [][ /\ RunningTick =>
           \A s1 \in {HandleInput(Game, input')} :
           \A dt \in {frameDt' * s1.gameSpeed} :
           \A wave \in {s1.activeWave} :
           \A spawned \in {UpdateWave(wave, dt)} :
              /\ wave = activeWave
              /\ activeWave'.spawnTimer = spawned.spawnTimer
              /\ activeWave'.enemiesSpawned = spawned.enemiesSpawned
              /\ wave.enemiesSpawned < wave.enemyCount =>
                    IF wave.spawnTimer + dt >= SPAWN_INTERVAL
                    THEN /\ spawned.spawnTimer = 0
                         /\ spawned.enemiesSpawned = wave.enemiesSpawned + 1
                         /\ \A i \in DOMAIN wave.enemies :
                               i # wave.enemiesSpawned
                                  => spawned.enemies[i] = wave.enemies[i]
                         /\ ~wave.enemies[wave.enemiesSpawned].active
                         /\ Born(wave, spawned).active
                         /\ Born(wave, spawned).pos = ScreenPos(path[0])
                         /\ Born(wave, spawned).pathIndex = 0
                         /\ Born(wave, spawned).moveTimer = 0
                         /\ Born(wave, spawned).health = Born(wave, spawned).maxHealth
                         /\ Born(wave, spawned).maxHealth
                               = wave.enemies[wave.enemiesSpawned].maxHealth
                    ELSE /\ spawned.spawnTimer = wave.spawnTimer + dt
                         /\ spawned.enemiesSpawned = wave.enemiesSpawned
                         /\ spawned.enemies = wave.enemies
        /\ activeWave'.enemiesSpawned > activeWave.enemiesSpawned =>
              /\ RunningTick
              /\ activeWave'.enemiesSpawned = activeWave.enemiesSpawned + 1
              /\ activeWave.spawnTimer + frameDt' * gameSpeed' >= SPAWN_INTERVAL
              /\ activeWave'.spawnTimer = 0
        /\ activeWave'.spawnTimer > activeWave.spawnTimer =>
              /\ RunningTick
              /\ activeWave'.spawnTimer = activeWave.spawnTimer + frameDt' * gameSpeed'
      ]_vars

\* a frame of one second, almost three spawn intervals, has admitted the
\* second member of the wave and no more: the third waits
C27_Witness ==
    /\ pc = "draw" /\ gameState = GAME_STATE_PLAYING
    /\ frameDt * gameSpeed >= 2 * SPAWN_INTERVAL
    /\ activeWave.enemiesSpawned = 2 /\ activeWave.spawnTimer = 0
    /\ activeWave.enemies[1].active /\ ~activeWave.enemies[2].active
    /\ activeWave.enemies[2].health # activeWave.enemies[2].maxHealth
    /\ activeWave.enemyCount > 2

----------------------------------------------------------------------------
(* Properties of the motion of an enemy *)

\* two points of the screen are the same point
SamePoint(p, q) == p.x * q.d = q.x * p.d /\ p.y * q.d = q.y * p.d

\* the run after input and spawn of the tick that is being taken, at the
\* scaled time of the tick
AfterSpawn ==
    LET s1 == HandleInput(Game, input')
    IN  [s1 EXCEPT !.activeWave = UpdateWave(@, frameDt' * s1.gameSpeed)]
TickTime == frameDt' * HandleInput(Game, input').gameSpeed

\* C28: when, in a tick, the segment timer of an active enemy reaches the
\* segment duration 1 / (speed of its type * its speed multiplier), the
\* enemy advances to the next segment, the duration is subtracted from the
\* timer and the rest of the time counts on the new segment in the same
\* tick: after the tick the timer is below one segment duration, and the
\* position and the progress are those of the timer's fraction of the new
\* segment.
C28_RemainderAppliedToNewSegment ==
    [][ RunningTick =>
          \A spawned \in {AfterSpawn} : \A dt \in {TickTime} :
          \A i \in 0 .. spawned.activeWave.enemyCount - 1 :
          \A slowed \in {SlowStep(spawned.activeWave.enemies[i], dt)} :
          \A interval \in {MoveInterval(slowed.type, slowed.speedMultiplier)} :
          \A after \in {activeWave'.enemies[i]} :
             (/\ spawned.activeWave.enemies[i].active
              /\ slowed.pathIndex < pathLength - 1
              /\ slowed.moveTimer + dt >= interval)
             => /\ after.pathIndex = slowed.pathIndex + 1
                /\ after.moveTimer = slowed.moveTimer + dt - interval
                /\ after.moveTimer < interval
                /\ after.pathIndex < pathLength - 1 =>
                      /\ SamePoint(after.pos,
                                   Vector2Lerp(ScreenPos(path[after.pathIndex]),
                                               ScreenPos(path[after.pathIndex + 1]),
                                               after.moveTimer, interval))
                      /\ after.progress.n * interval
                            = (after.pathIndex * interval + after.moveTimer)
                              * after.progress.d
      ]_vars

\* the members that leak in the tick that is being taken: the active ones
\* whose path index is at the last index of the path when they are moved
Leakers(spawned) ==
    {i \in 0 .. spawned.activeWave.enemyCount - 1 :
        /\ spawned.activeWave.enemies[i].active
        /\ spawned.activeWave.enemies[i].pathIndex >= pathLength - 1}

\* C29: an active enemy whose path index is at the last index of the path
\* is deactivated by the tick, and the tick takes one point of playerHealth
\* for each such enemy, stopping at 0; playerHealth falls in no other way;
\* the motion update that handles the leaks leaves playerMoney alone, and a
\* tick in which no enemy is killed leaves it alone too; when the leaks
\* bring playerHealth to 0 the motion update sets the phase to GameOver
\* (the phase at the end of the tick is then GameOver unless the wave is
\* complete), and a leak at playerHealth 0 leaves it at 0.
C29_LeakCostsOnePoint ==
    [][ /\ RunningTick =>
           \A spawned \in {AfterSpawn} : \A dt \in {TickTime} :
           \A leakers \in {Leakers(spawned)} :
           \A moved \in {UpdateEnemies(spawned, dt)} :
              /\ \A i \in leakers :
                    /\ ~moved.activeWave.enemies[i].active
                    /\ ~activeWave'.enemies[i].active
                    /\ \A spent \in {UpdateEnemy([spawned EXCEPT !.playerHealth = 0],
                                                 i, dt)} :
                          /\ spent.playerHealth = 0
                          /\ spent.gameState = GAME_STATE_GAME_OVER
                          /\ spent.playerMoney = spawned.playerMoney
              /\ spawned.playerHealth = playerHealth
              /\ playerHealth' = IF playerHealth > Cardinality(leakers)
                                 THEN playerHealth - Cardinality(leakers) ELSE 0
              /\ moved.playerHealth = playerHealth'
              /\ moved.playerMoney = spawned.playerMoney
              /\ (\A i \in 0 .. activeWave.enemyCount - 1 :
                     moved.activeWave.enemies[i].active
                        => activeWave'.enemies[i].active)
                    => playerMoney' = spawned.playerMoney
              /\ (leakers # {} /\ playerHealth' = 0) =>
                    /\ moved.gameState = GAME_STATE_GAME_OVER
                    /\ \/ gameState' = GAME_STATE_GAME_OVER
                       \/ activeWave'.isFinished /\ NoneActive(activeWave')
        /\ playerHealth' < playerHealth => RunningTick /\ Leakers(AfterSpawn) # {}
      ]_vars

\* the twentieth leak: the last point of playerHealth is gone with a leak
\* in the middle of a wave, the phase is GameOver and the leaks have paid
\* nothing
C29_Witness ==
    /\ pc = "draw" /\ gameState = GAME_STATE_GAME_OVER
    /\ playerHealth = 0 /\ hist.leaks = 20
    /\ \E i \in 0 .. activeWave.enemiesSpawned - 2 :
          /\ ~activeWave.enemies[i].active
          /\ activeWave.enemies[i].pathIndex = pathLength - 1
          /\ activeWave.enemies[i].health = activeWave.enemies[i].maxHealth
          /\ activeWave.enemies[i + 1].active
    /\ playerMoney \in {InitializeGame(ZeroGame).playerMoney,
                        InitializeGame(ZeroGame).playerMoney
                           - g_towerStats[TOWER_SLOW][0].cost}

\* the speed multipliers a slow tower applies, one for each level
SlowValues == {g_towerStats[TOWER_SLOW][l].damage : l \in 0 .. MAX_TOWER_LEVEL - 1}

\* enemy e has been pulsed by an active slow tower
Pulsed(e, tw) ==
    \E c \in DOMAIN tw :
        /\ tw[c].active /\ tw[c].type = TOWER_SLOW
        /\ e.speedMultiplier = g_towerStats[TOWER_SLOW][tw[c].level].damage
        /\ e.slowTimer = FireInterval(g_towerStats[TOWER_SLOW][tw[c].level])
                         + Second \div 10

\* C30: for every active enemy in every tick of the Playing phase: with
\* its slow timer positive when its motion update begins, the timer falls
\* by dt and the enemy keeps the multiplier it has and moves by it; with
\* the timer at zero or below the multiplier becomes 1.0 and the enemy
\* moves at the speed of its type.  After the motion the timer and the
\* multiplier change only by the pulse of a slow tower, and the multiplier
\* of a member of the wave is always 1.0 or the slow value of a level of the
\* slow tower.
C30_SlowTimerRulesTheMultiplier ==
    [][ /\ RunningTick =>
           \A spawned \in {AfterSpawn} : \A dt \in {TickTime} :
           \A moved \in {UpdateEnemies(spawned, dt)} :
           \A i \in 0 .. spawned.activeWave.enemyCount - 1 :
           \A before \in {spawned.activeWave.enemies[i]} :
           \A m \in {moved.activeWave.enemies[i]} :
           \A after \in {activeWave'.enemies[i]} :
              before.active =>
                 /\ IF before.slowTimer > 0
                    THEN /\ m.slowTimer = before.slowTimer - dt
                         /\ m.speedMultiplier = before.speedMultiplier
                    ELSE /\ m.slowTimer = before.slowTimer
                         /\ m.speedMultiplier = 10
                 /\ before.pathIndex < pathLength - 1 =>
                      \A interval \in {MoveInterval(before.type, m.speedMultiplier)} :
                         IF before.moveTimer + dt >= interval
                         THEN /\ m.pathIndex = before.pathIndex + 1
                              /\ m.moveTimer = before.moveTimer + dt - interval
                         ELSE /\ m.pathIndex = before.pathIndex
                              /\ m.moveTimer = before.moveTimer + dt
                              /\ SamePoint(m.pos,
                                    Vector2Lerp(ScreenPos(path[m.pathIndex]),
                                                ScreenPos(path[m.pathIndex + 1]),
                                                m.moveTimer, interval))
                 /\ after.pathIndex = m.pathIndex /\ after.moveTimer = m.moveTimer
                 /\ after.pos = m.pos
                 /\ \/ /\ after.slowTimer = m.slowTimer
                       /\ after.speedMultiplier = m.speedMultiplier
                    \/ m.active /\ Pulsed(after, towers')
        /\ \A i \in 0 .. activeWave.enemyCount - 1 :
              activeWave.enemies[i].speedMultiplier \in {10} \cup SlowValues
        /\ \A i \in 0 .. activeWave'.enemyCount - 1 :
              activeWave'.enemies[i].speedMultiplier \in {10} \cup SlowValues
      ]_vars

\* one enemy walks slowed under the slow tower while another, whose slow
\* has run out, is back at multiplier 1.0 with its timer below zero
C30_Witness ==
    /\ pc = "draw" /\ gameState = GAME_STATE_PLAYING
    /\ \E i, j \in 0 .. activeWave.enemiesSpawned - 1 :
          /\ activeWave.enemies[i].active
          /\ activeWave.enemies[i].speedMultiplier \in SlowValues
          /\ activeWave.enemies[i].slowTimer > 0
          /\ activeWave.enemies[j].active
          /\ activeWave.enemies[j].speedMultiplier = 10
          /\ activeWave.enemies[j].slowTimer < 0

----------------------------------------------------------------------------
(* Properties of the towers' steps within a tick *)

\* the run after input, spawn and motion of the tick that is being taken
AfterMotion == UpdateEnemies(AfterSpawn, TickTime)

\* the run before the step of each tower of the scan from the j-th on, and
\* after the step of the last
RECURSIVE TowerStatesFrom(_, _, _, _)
TowerStatesFrom(s, scan, j, dt) ==
    IF j > Len(scan) THEN <<s>>
    ELSE <<s>> \o TowerStatesFrom(UpdateTower(s, ScanCell(scan[j]), dt), scan, j + 1, dt)

\* the cooldown of a tower after the subtraction at the top of its step
CooledDown(tower, dt) ==
    IF tower.fireCooldown > 0 THEN tower.fireCooldown - dt ELSE tower.fireCooldown

\* the step of the tower on cell c leaves every other tower as it is
OthersUntouched(b, a, c) ==
    \A d \in DOMAIN b.towers : d # c => a.towers[d] = b.towers[d]

\* the step from b to a of the slow tower on cell c is what C31 says
SlowStepAsClaimed(b, a, c, dt) ==
    LET tower == b.towers[c]
        stats == g_towerStats[TOWER_SLOW][tower.level]
        centre == ScreenPos(tower.pos)
        inRange(i) ==
            /\ b.activeWave.enemies[i].active
            /\ CheckCollisionPointCircle(b.activeWave.enemies[i].pos, centre, stats.range)
    IN  /\ IF CooledDown(tower, dt) <= 0
           THEN /\ a.towers[c].fireCooldown = FireInterval(stats)
                /\ \A i \in 0 .. b.activeWave.enemyCount - 1 :
                      IF inRange(i)
                      THEN a.activeWave.enemies[i] =
                              [b.activeWave.enemies[i] EXCEPT
                                  !.speedMultiplier = stats.damage,
                                  !.slowTimer = FireInterval(stats) + Second \div 10]
                      ELSE a.activeWave.enemies[i] = b.activeWave.enemies[i]
           ELSE /\ a.towers[c].fireCooldown = CooledDown(tower, dt)
                /\ a.activeWave = b.activeWave
        /\ \A i \in DOMAIN b.activeWave.enemies :
              /\ a.activeWave.enemies[i].health = b.activeWave.enemies[i].health
              /\ a.activeWave.enemies[i].active = b.activeWave.enemies[i].active
        /\ a.towers[c].targetIndex = tower.targetIndex
        /\ OthersUntouched(b, a, c)
        /\ a.playerMoney = b.playerMoney
        /\ a.projectiles = b.projectiles

\* C31: in every tick a slow tower pulses exactly when its cooldown, after
\* the tick's time is taken off, is <= 0; the pulse sets the speed
\* multiplier to the slow value of the tower's level and the slow timer to
\* 1/fireRate + 0.1 s for exactly the active enemies within range of the
\* tower's centre and sets the tower's cooldown to 1/fireRate; with or
\* without a pulse the step changes no enemy's health or active flag, no
\* tower's target, no money and no projectile.
C31_SlowTowerPulses ==
    [][ RunningTick =>
          \A dt \in {TickTime} : \A moved \in {AfterMotion} :
          \A scan \in {ActiveScan(moved)} :
          \A st \in {TowerStatesFrom(moved, scan, 1, dt)} :
             /\ st[Len(st)].activeWave = activeWave'
             /\ st[Len(st)].towers = towers'
             /\ \A k \in 1 .. Len(scan) :
                   st[k].towers[ScanCell(scan[k])].type = TOWER_SLOW
                      => SlowStepAsClaimed(st[k], st[k + 1], ScanCell(scan[k]), dt)
      ]_vars

\* a slow tower has just pulsed: of two active enemies one, in range, is
\* slowed for the full time and the other, out of range, is not
C31_Witness ==
    /\ pc = "draw" /\ gameState = GAME_STATE_PLAYING
    /\ \E c \in DOMAIN towers :
          /\ towers[c].active /\ towers[c].type = TOWER_SLOW
          /\ towers[c].fireCooldown = FireInterval(g_towerStats[TOWER_SLOW][towers[c].level])
          /\ \E i, j \in 0 .. activeWave.enemiesSpawned - 1 :
                /\ activeWave.enemies[i].active
                /\ activeWave.enemies[i].speedMultiplier
                      = g_towerStats[TOWER_SLOW][towers[c].level].damage
                /\ activeWave.enemies[i].slowTimer
                      = towers[c].fireCooldown + Second \div 10
                /\ activeWave.enemies[j].active
                /\ ~CheckCollisionPointCircle(activeWave.enemies[j].pos,
                       ScreenPos(towers[c].pos),
                       g_towerStats[TOWER_SLOW][towers[c].level].range)
                /\ activeWave.enemies[j].speedMultiplier = 10

\* enemy i of the wave is active and within the range of the tower, by the
\* squared distance from the tower's centre
InReach(wave, tower, i) ==
    /\ wave.enemies[i].active
    /\ DistanceSqrCmp(ScreenPos(tower.pos), wave.enemies[i].pos,
                      g_towerStats[tower.type][tower.level].range) <= 0

\* the step from b to a of the gun or splash tower on cell c, which holds
\* target t, clears or keeps the target as C32 says
TargetKeptAsClaimed(b, a, c, t) ==
    LET tower == b.towers[c]
        stats == g_towerStats[tower.type][tower.level]
        held == InReach(b.activeWave, tower, t)
    IN  /\ ValidateTarget(b.activeWave, ScreenPos(tower.pos), stats, t)
              = IF held THEN t ELSE -1
        /\ held => \/ a.towers[c].targetIndex = t
                   \/ /\ a.towers[c].targetIndex = -1
                      /\ ~a.activeWave.enemies[t].active
                      /\ a.activeWave.enemies[t].health <= 0
        /\ ~held => a.towers[c].targetIndex # t

\* C32: in every tick a gun or splash tower that holds a target clears it
\* exactly when the target is inactive or its squared distance from the
\* tower's centre is above the squared range.  A target that is active and
\* in range is kept, whatever the progress of the other enemies in range:
\* the tower ends its step with that target, or with none when its shot has
\* killed it.  A cleared target is not the tower's target after the step.
C32_TargetClearedOnlyWhenLost ==
    [][ RunningTick =>
          \A dt \in {TickTime} : \A moved \in {AfterMotion} :
          \A scan \in {ActiveScan(moved)} :
          \A st \in {TowerStatesFrom(moved, scan, 1, dt)} :
             /\ st[Len(st)].towers = towers'
             /\ \A k \in 1 .. Len(scan) :
                   \A tower \in {st[k].towers[ScanCell(scan[k])]} :
                      (tower.type # TOWER_SLOW /\ tower.targetIndex # -1)
                      => TargetKeptAsClaimed(st[k], st[k + 1], ScanCell(scan[k]),
                                             tower.targetIndex)
      ]_vars

\* a tower has kept its target through a tick although another active enemy
\* within its range has the greater progress
C32_Witness ==
    /\ pc = "draw" /\ gameState = GAME_STATE_PLAYING
    /\ \E c \in DOMAIN towers :
          /\ towers[c].active /\ towers[c].type # TOWER_SLOW
          /\ towers[c].targetIndex # -1
          /\ InReach(activeWave, towers[c], towers[c].targetIndex)
          /\ \E j \in 0 .. activeWave.enemiesSpawned - 1 :
                /\ InReach(activeWave, towers[c], j)
                /\ ProgressGreater(activeWave.enemies[j].progress,
                       activeWave.enemies[towers[c].targetIndex].progress)

\* the way an enemy has come, by where it stands: its path index plus the
\* fraction of the segment that lies between the cell of that index and its
\* position (the cells are squares and the segments lie along the axes)
PathProgress(e) ==
    LET a == ScreenPos(path[e.pathIndex])
        offX == e.pos.x - a.x * e.pos.d
        offY == e.pos.y - a.y * e.pos.d
    IN  [n |-> e.pathIndex * cellWidth * e.pos.d
               + (IF offX < 0 THEN -offX ELSE offX) + (IF offY < 0 THEN -offY ELSE offY),
         d |-> cellWidth * e.pos.d]

\* the members of the wave within reach of a tower
Reachable(wave, tower) ==
    {i \in 0 .. wave.enemyCount - 1 : InReach(wave, tower, i)}

\* the step from b to a of the gun or splash tower on cell c, which has no
\* target or loses it in this step, acquires as C33 says
AcquiredAsClaimed(b, a, c) ==
    LET tower == b.towers[c]
        stats == g_towerStats[tower.type][tower.level]
        near == Reachable(b.activeWave, tower)
    IN  \A got \in {AcquireTarget(b.activeWave, ScreenPos(tower.pos), stats)} :
           /\ (got = -1) = (near = {})
           /\ got # -1 =>
                 /\ got \in near
                 /\ \A j \in near :
                       /\ ~ProgressGreater(PathProgress(b.activeWave.enemies[j]),
                                           PathProgress(b.activeWave.enemies[got]))
                       /\ PathProgress(b.activeWave.enemies[j])
                             = PathProgress(b.activeWave.enemies[got]) => got <= j
           /\ \/ a.towers[c].targetIndex = got
              \/ /\ got # -1 /\ a.towers[c].targetIndex = -1
                 /\ ~a.activeWave.enemies[got].active
           /\ AcquireTarget(b.activeWave, ScreenPos(tower.pos),
                            [stats EXCEPT !.range = 0]) = -1

\* C33: in every tick a gun or splash tower that is without a target after
\* the validation acquires, among the active enemies whose squared distance
\* from the tower's centre is <= the squared range, the one that is
\* furthest along the path (path index plus fraction of the segment), the
\* lowest index among equals, and acquires none exactly when no active
\* enemy is in range; with a range of 0 it would acquire none.
C33_AcquiresTheFurthestInRange ==
    [][ RunningTick =>
          \A dt \in {TickTime} : \A moved \in {AfterMotion} :
          \A scan \in {ActiveScan(moved)} :
          \A st \in {TowerStatesFrom(moved, scan, 1, dt)} :
             \A k \in 1 .. Len(scan) :
                \A tower \in {st[k].towers[ScanCell(scan[k])]} :
                   (/\ tower.type # TOWER_SLOW
                    /\ \/ tower.targetIndex = -1
                       \/ ~InReach(st[k].activeWave, tower, tower.targetIndex))
                   => AcquiredAsClaimed(st[k], st[k + 1], ScanCell(scan[k]))
      ]_vars

\* the target a gun or splash tower holds after validation and acquisition
TargetHeld(b, c) ==
    LET tower == b.towers[c]
        stats == g_towerStats[tower.type][tower.level]
        valid == ValidateTarget(b.activeWave, ScreenPos(tower.pos), stats,
                                tower.targetIndex)
    IN  IF valid = -1 THEN AcquireTarget(b.activeWave, ScreenPos(tower.pos), stats)
        ELSE valid

\* the enemies a shot of the tower at target t damages
ShotAt(b, tower, t) ==
    IF tower.type = TOWER_GUN THEN {t}
    ELSE {i \in 0 .. b.activeWave.enemyCount - 1 :
            /\ b.activeWave.enemies[i].active
            /\ DistanceSqrCmp(b.activeWave.enemies[t].pos, b.activeWave.enemies[i].pos,
                              g_towerStats[tower.type][tower.level].splashRadius) < 0}

\* the step from b to a of the gun or splash tower on cell c fires or not
\* as C34 says
FiredAsClaimed(b, a, c, dt) ==
    LET tower == b.towers[c]
        stats == g_towerStats[tower.type][tower.level]
    IN  \A t \in {TargetHeld(b, c)} :
           IF t # -1 /\ CooledDown(tower, dt) <= 0
           THEN /\ \A i \in DOMAIN b.activeWave.enemies :
                      a.activeWave.enemies[i].health =
                         IF i \in ShotAt(b, tower, t)
                         THEN b.activeWave.enemies[i].health - stats.damage
                         ELSE b.activeWave.enemies[i].health
                /\ a.towers[c].fireCooldown = FireInterval(stats)
                /\ a.projectiles # b.projectiles
           ELSE /\ a.activeWave = b.activeWave
                /\ a.towers[c].fireCooldown = CooledDown(tower, dt)
                /\ a.projectiles = b.projectiles
                /\ a.playerMoney = b.playerMoney

\* C34: in every tick a gun or splash tower fires exactly when, after
\* validation and acquisition, it holds a target and its cooldown, after
\* the tick's time is taken off, is <= 0.  A gun shot takes the damage of
\* the tower's level from the health of the target and of no other enemy; a
\* splash shot takes it from every active enemy strictly within the splash
\* radius of the target's position and from no other.  The shot sets the
\* cooldown to 1/fireRate; a tower that does not fire changes no enemy.  A
\* tower fires at most once in a tick, and two shots of a tower are at
\* least 1/fireRate of simulated time apart: the cooldown of a standing
\* tower changes in running ticks only, where it is set by a shot or falls
\* by the tick's time.
C34_FiresWhenCooledAndAimed ==
    [][ /\ RunningTick =>
           \A dt \in {TickTime} : \A moved \in {AfterMotion} :
           \A scan \in {ActiveScan(moved)} :
           \A st \in {TowerStatesFrom(moved, scan, 1, dt)} :
              /\ st[Len(st)].activeWave = activeWave'
              /\ st[Len(st)].towers = towers'
              /\ \A k, l \in 1 .. Len(scan) : scan[k] = scan[l] => k = l
              /\ \A k \in 1 .. Len(scan) :
                    /\ OthersUntouched(st[k], st[k + 1], ScanCell(scan[k]))
                    /\ st[k].towers[ScanCell(scan[k])].type # TOWER_SLOW
                          => FiredAsClaimed(st[k], st[k + 1], ScanCell(scan[k]), dt)
        /\ \A c \in DOMAIN towers :
              (/\ towers[c].active /\ towers'[c].active
               /\ towers'[c].fireCooldown # towers[c].fireCooldown)
              => /\ RunningTick
                 /\ \/ towers'[c].fireCooldown
                          = FireInterval(g_towerStats[towers'[c].type][towers'[c].level])
                    \/ /\ towers[c].fireCooldown > 0
                       /\ towers'[c].fireCooldown = towers[c].fireCooldown - TickTime
      ]_vars

\* a splash tower has just fired: two active enemies are wounded and a
\* third active enemy, outside the splash, has its full health
C34_Witness ==
    /\ pc = "draw" /\ gameState = GAME_STATE_PLAYING
    /\ \E c \in DOMAIN towers :
          /\ towers[c].active /\ towers[c].type = TOWER_SPLASH
          /\ towers[c].fireCooldown
                = FireInterval(g_towerStats[TOWER_SPLASH][towers[c].level])
          /\ towers[c].targetIndex # -1
    /\ \E c \in DOMAIN towers :
          /\ towers[c].active /\ towers[c].type = TOWER_GUN
          /\ towers[c].fireCooldown > 0
    /\ \E i, j, k \in 0 .. activeWave.enemiesSpawned - 1 :
          /\ i # j
          /\ activeWave.enemies[i].active /\ activeWave.enemies[j].active
          /\ activeWave.enemies[k].active
          /\ activeWave.enemies[i].health
                = activeWave.enemies[i].maxHealth - g_towerStats[TOWER_SPLASH][0].damage
          /\ activeWave.enemies[j].health
                = activeWave.enemies[j].maxHealth - g_towerStats[TOWER_SPLASH][0].damage
                                                  - g_towerStats[TOWER_GUN][0].damage
          /\ activeWave.enemies[k].health = activeWave.enemies[k].maxHealth

\* the step of tower c from run state b fires
Fires(b, c, dt) ==
    /\ b.towers[c].type # TOWER_SLOW
    /\ TargetHeld(b, c) # -1
    /\ CooledDown(b.towers[c], dt) <= 0

(* C35: every gun or splash shot emits exactly one visual effect: the number
   of effects stays within 0 .. MAX_PROJECTILES in every state, there is
   room for one more whenever a tower fires, the shot appends one effect of
   the full life time, a step that does not fire appends none, and the
   frame's drawing step lets the effects decay by the frame's scaled time *)
C35_EveryShotShowsItsEffect ==
    [][ /\ Len(projectiles') <= MAX_PROJECTILES
        /\ RunningTick =>
           \A dt \in {TickTime} : \A moved \in {AfterMotion} :
           \A scan \in {ActiveScan(moved)} :
           \A st \in {TowerStatesFrom(moved, scan, 1, dt)} :
              /\ moved.projectiles = projectiles
              /\ st[Len(st)].projectiles = projectiles'
              /\ \A k \in 1 .. Len(scan) :
                    IF Fires(st[k], ScanCell(scan[k]), dt)
                    THEN /\ Len(st[k].projectiles) < MAX_PROJECTILES
                         /\ st[k + 1].projectiles
                               = Append(st[k].projectiles, PROJECTILE_LIFE)
                    ELSE st[k + 1].projectiles = st[k].projectiles
        /\ (pc = "draw" /\ pc' = "update") =>
              /\ Len(projectiles') <= Len(projectiles)
              /\ \A i \in 1 .. Len(projectiles') : projectiles'[i] > 0
              /\ (g_isPaused \/ gameSpeed = 0) => projectiles' = projectiles
      ]_vars

\* a tick in which a tower has fired while the effect of an earlier shot
\* was still alive: the effects outnumber the towers
C35_Witness ==
    /\ pc = "draw" /\ gameState = GAME_STATE_PLAYING
    /\ Len(projectiles) > Cardinality({c \in DOMAIN towers : towers[c].active})
    /\ \E i \in 1 .. Len(projectiles) : projectiles[i] < PROJECTILE_LIFE

\* the enemies a shot of the tower at target t kills in run state b: the
\* active ones whose health after the damage is not positive
Killed(b, tower, t) ==
    {i \in 0 .. b.activeWave.enemyCount - 1 :
        /\ b.activeWave.enemies[i].active
        /\ b.activeWave.enemies[i].health
             - (IF i \in ShotAt(b, tower, t)
                THEN g_towerStats[tower.type][tower.level].damage ELSE 0) <= 0}

\* the rewards of the enemies of a set, added up
RECURSIVE RewardsOf(_, _)
RewardsOf(wave, killed) ==
    IF killed = {} THEN 0
    ELSE LET i == CHOOSE k \in killed : TRUE
         IN  enemyTypes[wave.enemies[i].type].money
               + RewardsOf(wave, killed \ {i})

\* the step of tower c from run state b to run state a sweeps as claimed
SweptAsClaimed(b, a, c, dt) ==
    IF Fires(b, c, dt)
    THEN \A t \in {TargetHeld(b, c)} : \A killed \in {Killed(b, b.towers[c], t)} :
           /\ \A i \in DOMAIN b.activeWave.enemies :
                 a.activeWave.enemies[i].active
                    = (b.activeWave.enemies[i].active /\ i \notin killed)
           /\ a.playerMoney = b.playerMoney + RewardsOf(b.activeWave, killed)
           /\ a.towers[c].targetIndex = IF t \in killed THEN -1 ELSE t
           /\ a.playerHealth = b.playerHealth
    ELSE /\ \A i \in DOMAIN b.activeWave.enemies :
               a.activeWave.enemies[i].active = b.activeWave.enemies[i].active
         /\ a.playerMoney = b.playerMoney

(* C36: right after the damage of a shot one sweep deactivates every active
   enemy whose health is not positive, adds the rewards of all of them to
   playerMoney and clears the firing tower's target if it is among them; a
   splash shot damages all enemies in its radius before the sweep; a step
   that does not fire deactivates nobody and pays nothing *)
C36_OneSweepAfterTheDamage ==
    [][RunningTick =>
           \A dt \in {TickTime} : \A moved \in {AfterMotion} :
           \A scan \in {ActiveScan(moved)} :
           \A st \in {TowerStatesFrom(moved, scan, 1, dt)} :
              /\ st[Len(st)].activeWave = activeWave'
              /\ st[Len(st)].playerMoney = playerMoney'
              /\ \A k \in 1 .. Len(scan) :
                    SweptAsClaimed(st[k], st[k + 1], ScanCell(scan[k]), dt)
      ]_vars

\* a splash shot has just killed two enemies at once: the tower has fired
\* and lost its target, two enemies are dead of the splash damage alone and
\* the money holds the price of the splash tower less and two rewards more
C36_Witness ==
    /\ pc = "draw" /\ gameState = GAME_STATE_PLAYING
    /\ \E c \in DOMAIN towers :
          /\ towers[c].active /\ towers[c].type = TOWER_SPLASH
          /\ towers[c].fireCooldown
                = FireInterval(g_towerStats[TOWER_SPLASH][towers[c].level])
          /\ towers[c].targetIndex = -1
    /\ \A c \in DOMAIN towers : towers[c].active => towers[c].type = TOWER_SPLASH
    /\ playerMoney = PLAYER_START_MONEY - g_towerStats[TOWER_SPLASH][0].cost
                       + 2 * enemyTypes[ENEMY_NORMAL].money
    /\ Cardinality({i \in 0 .. activeWave.enemiesSpawned - 1 :
                       /\ ~activeWave.enemies[i].active
                       /\ activeWave.enemies[i].health <= 0}) = 2

\* the wave a step starts from: in a running tick the wave after the
\* frame's input (which may have created it) and the tick's spawn
WaveBefore == IF RunningTick THEN AfterSpawn.activeWave ELSE activeWave

\* the members a step deactivates: those killed leave with no health left,
\* those leaked with some
Deactivated ==
    {i \in 0 .. WaveBefore.enemyCount - 1 :
        WaveBefore.enemies[i].active /\ ~activeWave'.enemies[i].active}
KilledNow == {i \in Deactivated : activeWave'.enemies[i].health <= 0}
LeakedNow == {i \in Deactivated : activeWave'.enemies[i].health > 0}

(* C37: within one wave every spawned member is deactivated at most once
   and by one cause: a member leaves in a running tick, either killed (its
   reward is paid, playerHealth is not charged for it) or leaked at the last
   cell of the path (playerHealth drops by one, no reward is paid); the
   rewards of a tick are those of the killed and the health lost is the
   number of the leaked; an inactive member stays inactive until the next
   wave is created or it is the member the wave spawns next *)
C37_OneEndPerMember ==
    [][ /\ (Deactivated # {} /\ hist'.started = hist.started) => RunningTick
        /\ RunningTick =>
              /\ \A i \in LeakedNow :
                    /\ i \in Leakers(AfterSpawn)
                    /\ activeWave'.enemies[i].health = WaveBefore.enemies[i].health
              /\ \A i \in KilledNow : i \notin Leakers(AfterSpawn)
              /\ playerMoney' = AfterSpawn.playerMoney
                                  + RewardsOf(activeWave', KilledNow)
              /\ playerHealth' = AfterSpawn.playerHealth - Cardinality(LeakedNow)
        /\ \A i \in 0 .. MAX_ENEMIES_PER_WAVE - 1 :
              (~activeWave.enemies[i].active /\ activeWave'.enemies[i].active)
              => \/ /\ RunningTick
                     /\ i = activeWave'.enemiesSpawned - 1
                     /\ WaveBefore.enemies[i].active
                 \/ hist'.started # hist.started
      ]_vars

\* the counters of the wave are in bounds
CountersInBounds ==
    /\ 0 <= activeWave.enemiesSpawned
    /\ activeWave.enemiesSpawned <= activeWave.enemyCount
    /\ activeWave.enemyCount <= MAX_ENEMIES_PER_WAVE
    /\ activeWave.isFinished => activeWave.enemiesSpawned = activeWave.enemyCount

\* only spawned members are active
OnlySpawnedActive ==
    \A i \in 0 .. MAX_ENEMIES_PER_WAVE - 1 :
       activeWave.enemies[i].active => i < activeWave.enemiesSpawned

\* the active members stand on the path
ActiveOnPath ==
    \A i \in 0 .. MAX_ENEMIES_PER_WAVE - 1 :
       activeWave.enemies[i].active =>
          /\ 0 <= activeWave.enemies[i].pathIndex
          /\ activeWave.enemies[i].pathIndex <= pathLength - 1

\* the targets are -1 or indices of the enemy array
TargetsInBounds ==
    \A c \in DOMAIN towers :
       towers[c].active =>
          \/ towers[c].targetIndex = -1
          \/ /\ 0 <= towers[c].targetIndex
             /\ towers[c].targetIndex <= MAX_ENEMIES_PER_WAVE - 1

\* the towers of a tick fire at spawned, active members in their range
FiresAtLiveTargets ==
    RunningTick =>
       \A dt \in {TickTime} : \A moved \in {AfterMotion} :
       \A scan \in {ActiveScan(moved)} :
       \A st \in {TowerStatesFrom(moved, scan, 1, dt)} :
          \A k \in 1 .. Len(scan) :
             Fires(st[k], ScanCell(scan[k]), dt) =>
                \A t \in {TargetHeld(st[k], ScanCell(scan[k]))} :
                   /\ t < st[k].activeWave.enemiesSpawned
                   /\ st[k].activeWave.enemies[t].active
                   /\ InReach(st[k].activeWave, st[k].towers[ScanCell(scan[k])], t)

\* the motion of a tick reads path[pathIndex + 1] for the members that do
\* not leak, whose pathIndex is below the last
ReadsPathInBounds ==
    RunningTick =>
       \A spawned \in {AfterSpawn} :
          \A i \in 0 .. spawned.activeWave.enemyCount - 1 :
             (spawned.activeWave.enemies[i].active /\ i \notin Leakers(spawned))
             => /\ spawned.activeWave.enemies[i].pathIndex + 1 <= pathLength - 1
                /\ spawned.activeWave.enemies[i].pathIndex >= 0

(* C38: all indices stay in bounds: 0 <= enemiesSpawned <= enemyCount <=
   MAX_ENEMIES_PER_WAVE, only members with index < enemiesSpawned are
   active, the fully-spawned flag implies enemiesSpawned = enemyCount, every
   active enemy's pathIndex is within the path and path[pathIndex + 1] is
   read only below the last cell, every tower's targetIndex is -1 or an
   index of the enemy array, and a tower fires only at an active enemy in
   its range *)
C38_IndicesInBounds ==
    [][ /\ CountersInBounds /\ CountersInBounds'
        /\ OnlySpawnedActive /\ OnlySpawnedActive'
        /\ ActiveOnPath /\ ActiveOnPath'
        /\ TargetsInBounds /\ TargetsInBounds'
        /\ FiresAtLiveTargets
        /\ ReadsPathInBounds
      ]_vars

\* the money spent on the towers standing on the cells of a set
RECURSIVE SpentOn(_, _)
SpentOn(tw, cells) ==
    IF cells = {} THEN 0
    ELSE LET c == CHOOSE x \in cells : TRUE
         IN  (IF tw[c].active THEN SumCosts(tw[c].type, tw[c].level) ELSE 0)
               + SpentOn(tw, cells \ {c})

\* the cells with a tower
Standing(tw) == {c \in DOMAIN tw : tw[c].active}

\* the towers a step removes
SoldNow == {c \in DOMAIN towers : towers[c].active /\ ~towers'[c].active}

\* a step that restarts the game
RestartsNow ==
    /\ pc = "update" /\ input'.keyR
    /\ gameState \in {GAME_STATE_GAME_OVER, GAME_STATE_VICTORY}

(* C39: building, upgrading and selling never raise the player's means:
   every refund is at least 0 and strictly below what was spent on the
   tower, for every type and level; in every step but a restart the money
   in hand plus the money spent on the standing towers changes by the kill
   rewards of the step less the loss of the towers sold in it, so that it
   is kept by a build or an upgrade, falls with every sale and grows only
   by kill rewards *)
C39_ShopNeverPays ==
    [][ /\ \A type \in 0 .. TOWER_TYPE_COUNT - 1 :
           \A level \in 0 .. MAX_TOWER_LEVEL - 1 :
              \A sold \in {SellSelectedTower(
                               [Game EXCEPT !.g_selectedTowerX = 1,
                                            !.g_selectedTowerY = 1,
                                            !.towers[<<1, 1>>].active = TRUE,
                                            !.towers[<<1, 1>>].type = type,
                                            !.towers[<<1, 1>>].level = level])} :
                 /\ sold.playerMoney >= playerMoney
                 /\ sold.playerMoney < playerMoney + SumCosts(type, level)
        /\ ~RestartsNow =>
              \A rewards \in {RewardsOf(activeWave', KilledNow)} :
              \A before \in {playerMoney + SpentOn(towers, Standing(towers))} :
              \A after \in {playerMoney' + SpentOn(towers', Standing(towers'))} :
                 /\ SoldNow = {} => after = before + rewards
                 /\ SoldNow # {} =>
                       /\ after < before + rewards
                       /\ playerMoney' >= playerMoney + rewards
                 /\ playerMoney' > playerMoney => SoldNow # {} \/ KilledNow # {}
      ]_vars

\* a tower that had been built and upgraded has been sold
C39_Witness ==
    /\ hist.sold >= 1 /\ hist.started >= 1
    /\ \E c \in DOMAIN towers : ~towers[c].active /\ towers[c].level > 0

\* the wave has spawned all its members and none of them is active
WaveRunOut ==
    /\ activeWave.enemiesSpawned = activeWave.enemyCount
    /\ NoneActive(activeWave)

(* C40: every wave terminates: from any Playing state of a run whose frames
   keep coming, unpaused, every member of the wave is eventually spawned,
   every spawned member is eventually deactivated, and the phase eventually
   leaves Playing for WaveTransition, Victory or GameOver *)
C40_EveryWaveRunsOut ==
    /\ (gameState = GAME_STATE_PLAYING)
          ~> (activeWave.enemiesSpawned = activeWave.enemyCount)
    /\ (gameState = GAME_STATE_PLAYING) ~> WaveRunOut
    /\ (gameState = GAME_STATE_PLAYING)
          ~> (gameState \in {GAME_STATE_WAVE_TRANSITION, GAME_STATE_VICTORY,
                             GAME_STATE_GAME_OVER})

====
